---- MODULE Spec2Model ----
(***************************************************************************)
(* Record/replay state machines of u4a-record-replay.                      *)
(*                                                                         *)
(*   Recorder  src/lib/Recorder.js, lines 574-1218 (the state-machine      *)
(*             revision of the class)                                      *)
(*   Replayer  src/unnamed/part_001                                        *)
(*                                                                         *)
(* JavaScript runs one task at a time: the code between two awaits is one  *)
(* atomic step.  Every call of an async method that reaches an await owns  *)
(* a slot of `calls` (its continuation: where it waits, its locals); the   *)
(* step that resumes it picks the outcome of the awaited driver call from  *)
(* the state of the browser at that moment.                                *)
(***************************************************************************)
EXTENDS Integers, Sequences, FiniteSets, TLC

\* ------------------------------------------------------------------ bounds
MaxBrowsers == 1      \* launches that pass the state check (browser ids)
MaxStarts == 2        \* startRecording calls that pass the state check
MaxEvents == 1        \* page callbacks / driver error events that are recorded
MaxCalls == 2         \* calls suspended at an await at the same time
MaxActions == 2       \* recordData.actions.length
MaxPlays == 2         \* play(), reloadPage() and captureScreen() calls that pass their checks
MaxPolls == 1         \* busyTimeout / interval: polls of the busy waiter before it times out
MaxNow == 2           \* readings of Date.now() that differ
MaxSteps == 3         \* actions of a recording whose pacing is followed
MaxStamp == 3         \* the largest timestamp of such a recording
MaxExec == 2          \* the longest measured executionTime
MaxScrolls == 3       \* scroll events the page dispatches
MaxClock == 6         \* ticks of the page's clock
MaxPos == 1           \* the largest scroll position
MaxResizes == 3       \* resize events the window dispatches
MaxResizeClock == 9   \* ticks of the clock of the page that is resized
MaxDim == 2           \* the largest outer width and height
MaxKeys == 2          \* keydown events the page dispatches
MaxCoord == 5         \* the largest coordinate of a click
MaxTimeout == 14      \* the largest busyTimeout

\* the 150 ms of the scroll debounce, in ticks of the page's clock
Debounce == 2

NULL == 0
Browsers == 1..MaxBrowsers
Slots == 1..MaxCalls
Sizes == {1, 2}       \* outer window sizes (width and height as one value)

\* ---------------------------------------------------------------- Recorder
VARIABLES
    option,               \* this.option: [stream, url] (url = "is set")
    status,               \* this.status
    browser,              \* this.browser (NULL or a browser id)
    page,                 \* this.page (NULL or the id of its browser)
    recordedActions,      \* this.recordedActions
    recordedErrors,       \* this.recordedErrors
    recordingStartTime,   \* this.recordingStartTime (NULL or a clock value)
    recordingEndTime,     \* this.recordingEndTime
    isScriptInjected,     \* this._isScriptInjected
    emitted,              \* the emit()s of the last step, in order, each with the status at that moment
    calls,                \* suspended async calls
    lastRet,              \* the envelope a call returned in the last step (NoRet: none did)
    \* the driver and the page, as far as the Recorder can observe them
    up,                   \* up[b]: browser b is connected (isConnected())
    launched,             \* number of browser ids handed out
    handler,              \* handler[b]: the once('disconnected') handler is still registered
    listeners,            \* listeners[b]: console/pageerror/requestfailed listeners registered
    exposed,              \* exposed[b]: __u4arecCallback is exposed on the page
    injected,             \* injected[b]: the capture script runs in the page (window.u4arec)
    scripts,              \* scripts[b]: the capture script on the page of b: evaluateOnNewDocument
                          \* calls made, and window.u4arec and the sets of listeners of its document
    starts,               \* startRecording calls that passed the state check
    events,               \* recorded page events
    now,                  \* Date.now()
    \* history: [open, slot].  open: a startRecording() call began a recording
    \* that did not fail, and no stopRecording(), close() or disconnect reset
    \* followed it; slot: the slot of that call while it is still awaiting
    opened,
    recGone               \* the disconnected handler reset the instance, no launchPage() since

recVars == <<option, status, browser, page, recordedActions, recordedErrors,
             recordingStartTime, recordingEndTime, isScriptInjected, emitted,
             calls, lastRet, up, launched, handler, listeners, exposed,
             injected, scripts, starts, events, now, opened, recGone>>

\* ---------------------------------------------------------------- Replayer
VARIABLES
    rpOption,             \* this.option: [visualEffects]
    rpStatus,             \* this.status
    rpBrowser,            \* this.browser
    rpPage,               \* this.page
    effects,              \* this.effects (NULL or the id of the page it was built on)
    consoleErrors,        \* this.consoleErrors
    rpEmitted,            \* the emit()s of the last step
    rpCalls,              \* suspended async calls
    rpLastRet,            \* the envelope a call returned in the last step
    rpUp,                 \* rpUp[b]: browser b is connected
    rpLaunched,           \* number of browser ids handed out
    rpHandler,            \* rpHandler[b]: the once('disconnected') handler is registered
    rpListeners,          \* rpListeners[b]: the page's console/pageerror/requestfailed listeners
    rpEvents,             \* recorded console errors
    rpLocals,             \* rpLocals[i]: the locals of the play() suspended in slot i
    rpPlays,              \* play(), reloadPage() and captureScreen() calls that passed their checks
    rpGone                \* the disconnected handler reset the instance, no launchPage() since

rpVars == <<rpOption, rpStatus, rpBrowser, rpPage, effects, consoleErrors, rpEmitted,
            rpCalls, rpLastRet, rpUp, rpLaunched, rpHandler, rpListeners, rpEvents,
            rpLocals, rpPlays, rpGone>>

\* ------------------------------------------------- followed in isolation
VARIABLES
    pacing,               \* the timing of one run of the replay loop
    scroll,               \* the capture script's scroll listener and its clock
    seen,                 \* the scroll events the page has dispatched so far
    resize,               \* the capture script's resize listener, the window and its clock
    keys,                 \* the capture script's keydown listener and what it sent
    click,                \* one run of the Replayer's click executor
    waiter,               \* one run of the Replayer's busy-indicator waiter
    overlay               \* one overlay call site of the Replayer, followed through ReplayerEffects

pureVars == <<pacing, scroll, seen, resize, keys, click, waiter, overlay>>

\* what a part that is followed in isolation leaves alone
notPacing == <<scroll, seen, resize, keys, click, waiter, overlay>>
notScroll == <<pacing, resize, keys, click, waiter, overlay>>
notResize == <<pacing, scroll, seen, keys, click, waiter, overlay>>
notKeys == <<pacing, scroll, seen, resize, click, waiter, overlay>>
notClick == <<pacing, scroll, seen, resize, keys, waiter, overlay>>
notWaiter == <<pacing, scroll, seen, resize, keys, click, overlay>>
notOverlay == <<pacing, scroll, seen, resize, keys, click, waiter>>

vars == <<recVars, rpVars, pureVars>>

\* ------------------------------------------------------------ data shapes
\* An action: the fields of the source that the state machine reads or sets
\* (fromWidth/fromHeight and toWidth/toHeight as one size each).
Action(type, from, to) == [type |-> type, fromSize |-> from, toSize |-> to, timestamp |-> NULL]

\* What the capture script can deliver through __u4arecCallback: a resize is
\* delivered only when the size changed (Recorder.js 1195), any other gesture
\* carries no size.  The script sets no timestamp.
UserActions ==
    {Action("click", NULL, NULL)}
        \cup {Action("browser_resize", p[1], p[2]) :
                  p \in {q \in Sizes \X Sizes : q[1] # q[2]}}

\* One emit(): the channel, whether the payload is one item, an array or
\* nothing, the payload, and what a listener finds at that moment: this.status
\* and (Recorder) this.recordingEndTime.
Emission(ch, kind, items, st, end) ==
    [ch |-> ch, kind |-> kind, items |-> items, st |-> st, end |-> end]

\* The envelope a call returns.  close() resolves with undefined: op tells
\* whether it returned at its state check ("closeIgnored") or closed ("close").
Ret(op, retcd, stcod, cancelled) ==
    [op |-> op, RETCD |-> retcd, STCOD |-> stcod, cancelled |-> cancelled]

NoRet == Ret("none", "none", "none", FALSE)

\* A suspended call: the method, the await it waits at, the browser (page) the
\* awaited driver call was made on, the error a catch block is holding, and
\* whether close() was invoked (and passed its state check) since the call began.
Call(op, pc, b, err, cancelled) ==
    [op |-> op, pc |-> pc, b |-> b, err |-> err, cancelled |-> cancelled]

Free == Call("none", "none", NULL, "none", FALSE)

HasFree == \E i \in Slots : calls[i] = Free

FreeSlot == CHOOSE i \in Slots : calls[i] = Free /\ \A j \in Slots : j < i => calls[j] # Free

\* The Recorder object as one value, so that the methods can be composed;
\* every step starts with nothing emitted.
Self ==
    [status |-> status, browser |-> browser, page |-> page,
     recordedActions |-> recordedActions, recordedErrors |-> recordedErrors,
     recordingStartTime |-> recordingStartTime, recordingEndTime |-> recordingEndTime,
     isScriptInjected |-> isScriptInjected, emitted |-> <<>>]

selfVars == <<status, browser, page, recordedActions, recordedErrors,
              recordingStartTime, recordingEndTime, isScriptInjected, emitted>>

Become(r) ==
    /\ status' = r.status
    /\ browser' = r.browser
    /\ page' = r.page
    /\ recordedActions' = r.recordedActions
    /\ recordedErrors' = r.recordedErrors
    /\ recordingStartTime' = r.recordingStartTime
    /\ recordingEndTime' = r.recordingEndTime
    /\ isScriptInjected' = r.isScriptInjected
    /\ emitted' = r.emitted

\* The outcome of an awaited driver call on browser b, decided when the call
\* resumes: a dead browser rejects with a 'Target closed' message (the case
\* the source documents at Recorder.js 882-893), a live one resolves or
\* rejects with some other error (navigation timeout, context destroyed...).
Outcome(b) == IF up[b] THEN {"ok", "error"} ELSE {"closed"}

\* ------------------------------------------------------ Recorder internals
Emit(r, ch, kind, items) ==
    [r EXCEPT !.emitted = Append(@, Emission(ch, kind, items, r.status, r.recordingEndTime))]

\* constructor: this.on('stop', ...) stamps the end time if it is not set.
OnStop(r) ==
    IF r.recordingEndTime = NULL THEN [r EXCEPT !.recordingEndTime = now] ELSE r

EmitStop(r) == OnStop(Emit(r, "stop", "signal", <<>>))

\* _pushAction() with the test of option.stream lost: it emits in either mode
PushActionAlways(r, action) ==
    LET record == [action EXCEPT !.timestamp =
                       IF action.timestamp # NULL THEN action.timestamp ELSE now]
    IN  [Emit(r, "action", "item", <<record>>) EXCEPT !.recordedActions = Append(@, record)]

\* _pushAction with unshift in place of push: the newest record goes first
PushActionUnshift(r, action) ==
    LET record == [action EXCEPT !.timestamp =
                       IF action.timestamp # NULL THEN action.timestamp ELSE now]
        e == IF option.stream THEN Emit(r, "action", "item", <<record>>) ELSE r
    IN  [e EXCEPT !.recordedActions = <<record>> \o @]

PushAction(r, action) ==
    LET record == [action EXCEPT !.timestamp =
                       IF action.timestamp # NULL THEN action.timestamp ELSE now]
        e == IF option.stream THEN Emit(r, "action", "item", <<record>>) ELSE r
    IN  [e EXCEPT !.recordedActions = Append(@, record)]

PushError(r, type) ==
    LET error == [type |-> type, timestamp |-> now]
        e == IF option.stream THEN Emit(r, "console-error", "item", <<error>>) ELSE r
    IN  [e EXCEPT !.recordedErrors = Append(@, error)]

Finalize(r) ==
    IF ~option.stream
    THEN LET a == IF Len(r.recordedActions) > 0
                  THEN Emit(r, "action", "array", r.recordedActions) ELSE r
         IN  IF Len(r.recordedErrors) > 0
             THEN Emit(a, "console-error", "array", r.recordedErrors) ELSE a
    ELSE r

ResetState(r) ==
    [r EXCEPT !.browser = NULL, !.page = NULL,
              !.recordedActions = <<>>, !.recordedErrors = <<>>,
              !.recordingStartTime = NULL, !.recordingEndTime = NULL,
              !.isScriptInjected = FALSE, !.status = "IDLE"]

\* the disconnected handler with the test of CLOSING lost
DisconnectedHandlerUnguarded(r) ==
    LET s == IF r.status = "RECORDING"
             THEN EmitStop(Finalize([r EXCEPT !.recordingEndTime = now]))
             ELSE r
    IN  ResetState(Emit(s, "close", "signal", <<>>))

\* browser.once('disconnected', ...) registered by launchPage
DisconnectedHandler(r) ==
    IF r.status = "CLOSING" THEN r
    ELSE LET s == IF r.status = "RECORDING"
                  THEN EmitStop(Finalize([r EXCEPT !.recordingEndTime = now]))
                  ELSE r
         IN  ResetState(Emit(s, "close", "signal", <<>>))

\* the function exposed as __u4arecCallback
OnUserAction(r, action) ==
    IF r.status = "RECORDING" THEN PushAction(r, action) ELSE r

\* page.on('console') with an error message of one argument, page.on('pageerror')
OnConsoleError(r) ==
    IF r.status # "RECORDING" THEN r ELSE PushError(r, "BROWSER_CONSOLE_ERROR")

\* page.on('requestfailed'); errorText is "net::ERR_ABORTED" or something else
OnRequestFailed(r, errorText) ==
    IF r.status # "RECORDING" THEN r
    ELSE IF errorText = "net::ERR_ABORTED" THEN r
    ELSE PushError(r, "REQUEST_ERROR")

driverVars == <<up, launched, handler, listeners, exposed, injected>>

\* ------------------------------------------------------- Recorder methods
NotOpened == [open |-> FALSE, slot |-> NULL]

\* the call in slot i ends without a recording: if it began the open one, none is open
Failed(i) == opened' = IF opened.slot = i THEN NotOpened ELSE opened

\* the call in slot i resolves with RETCD 'S'
Succeeded(i) == opened' = IF opened.slot = i THEN [opened EXCEPT !.slot = NULL] ELSE opened

\* A step in which no field changes and nothing is emitted / no call returns.
Quiet == Become(Self)

NoReturn == lastRet' = NoRet

Returns(ret) == lastRet' = ret

Suspend(i, c) == calls' = [calls EXCEPT ![i] = c]

Resolve(i, ret) == calls' = [calls EXCEPT ![i] = Free] /\ lastRet' = ret

\* launchPage(), up to the first await (puppeteer.launch)
LaunchPage ==
    IF status # "IDLE"
    THEN /\ Returns(Ret("launchPage", "E", "ALREADY_LAUNCHED", FALSE))
         /\ Quiet /\ UNCHANGED <<calls, driverVars>>
    ELSE IF ~option.url
    THEN /\ Returns(Ret("launchPage", "E", "NO_URL_FOUND", FALSE))
         /\ Quiet /\ UNCHANGED <<calls, driverVars>>
    ELSE /\ HasFree
         /\ launched + Cardinality({i \in Slots : calls[i].pc = "launch"}) < MaxBrowsers
         /\ Become([Self EXCEPT !.status = "LAUNCHING"])
         /\ Suspend(FreeSlot, Call("launchPage", "launch", NULL, "none", FALSE))
         /\ NoReturn /\ UNCHANGED driverVars

\* the end of launchPage's catch block (lines 785-795)
LaunchCatchEnd(i, r, err) ==
    LET r1 == IF r.status # "CLOSING" THEN [r EXCEPT !.status = "IDLE"] ELSE r
        stcod == IF r1.status = "CLOSING" \/ err = "ABORTED_BY_USER"
                 THEN "ABORTED_BY_USER" ELSE "LAUNCH_FAILED"
    IN  /\ Become(r1)
        /\ Resolve(i, Ret("launchPage", "E", stcod, calls[i].cancelled))

\* launchPage's catch block: tempBrowser b (NULL if launch failed) is closed
\* first if it is still connected (an await), then the status is restored.
LaunchCatch(i, b, err) ==
    IF b # NULL /\ up[b]
    THEN /\ Suspend(i, [calls[i] EXCEPT !.pc = "catchClose", !.b = b, !.err = err])
         /\ Quiet /\ NoReturn
    ELSE LaunchCatchEnd(i, Self, err)

\* the three checkpoints of launchPage
Checkpoint == status = "CLOSING"

\* await puppeteer.launch(...) resumes
LaunchResumed(i) ==
    /\ calls[i].op = "launchPage" /\ calls[i].pc = "launch"
    /\ \E o \in {"ok", "error"} :
        IF o = "ok"
        THEN LET b == launched + 1 IN
             /\ launched' = b
             /\ up' = [up EXCEPT ![b] = TRUE]
             /\ UNCHANGED <<handler, listeners, exposed, injected>>
             /\ IF Checkpoint
                THEN \* up' is not visible to LaunchCatch: the new browser is connected
                     /\ Suspend(i, [calls[i] EXCEPT !.pc = "catchClose", !.b = b,
                                                    !.err = "ABORTED_BY_USER"])
                     /\ Quiet /\ NoReturn
                ELSE /\ Suspend(i, [calls[i] EXCEPT !.pc = "pages", !.b = b])
                     /\ Quiet /\ NoReturn
        ELSE /\ LaunchCatch(i, NULL, "other")
             /\ UNCHANGED driverVars

\* lines 741-768: adopt the browser, register the listeners and the
\* disconnected handler, start the navigation
LaunchAdopt(i, b) ==
    /\ Become([Self EXCEPT !.browser = b, !.page = b, !.isScriptInjected = FALSE])
    /\ listeners' = [listeners EXCEPT ![b] = TRUE]
    /\ handler' = [handler EXCEPT ![b] = TRUE]
    /\ Suspend(i, [calls[i] EXCEPT !.pc = "goto"])
    /\ NoReturn /\ UNCHANGED <<up, launched, exposed, injected>>

\* await tempBrowser.pages() resumes; without a first page newPage() is awaited
PagesResumed(i) ==
    /\ calls[i].op = "launchPage" /\ calls[i].pc = "pages"
    /\ LET b == calls[i].b IN
       \E o \in Outcome(b) : \E hasPage \in BOOLEAN :
        IF o = "ok"
        THEN IF ~hasPage
             THEN /\ Suspend(i, [calls[i] EXCEPT !.pc = "newPage"])
                  /\ Quiet /\ NoReturn /\ UNCHANGED driverVars
             ELSE IF Checkpoint
             THEN LaunchCatch(i, b, "ABORTED_BY_USER") /\ UNCHANGED driverVars
             ELSE LaunchAdopt(i, b)
        ELSE /\ hasPage
             /\ LaunchCatch(i, b, "other") /\ UNCHANGED driverVars

\* await tempBrowser.newPage() resumes
NewPageResumed(i) ==
    /\ calls[i].op = "launchPage" /\ calls[i].pc = "newPage"
    /\ LET b == calls[i].b IN
       \E o \in Outcome(b) :
        IF o = "ok"
        THEN IF Checkpoint
             THEN LaunchCatch(i, b, "ABORTED_BY_USER") /\ UNCHANGED driverVars
             ELSE LaunchAdopt(i, b)
        ELSE LaunchCatch(i, b, "other") /\ UNCHANGED driverVars

\* await this.page.goto(...) resumes
GotoResumed(i) ==
    /\ calls[i].op = "launchPage" /\ calls[i].pc = "goto"
    /\ UNCHANGED driverVars
    /\ LET b == calls[i].b IN
       \E o \in Outcome(b) :
        IF o = "ok"
        THEN IF Checkpoint
             THEN LaunchCatch(i, b, "ABORTED_BY_USER")
             ELSE /\ Become([Self EXCEPT !.status = "READY"])
                  /\ Resolve(i, Ret("launchPage", "S", "none", calls[i].cancelled))
        ELSE LaunchCatch(i, b, "other")

\* await tempBrowser.close() in the catch block resumes: the browser is gone
LaunchCatchResumed(i) ==
    /\ calls[i].op = "launchPage" /\ calls[i].pc = "catchClose"
    /\ ~up[calls[i].b]
    /\ LaunchCatchEnd(i, Self, calls[i].err)
    /\ UNCHANGED driverVars

\* startRecording's catch block (lines 874-901); err is "ABORTED_BY_USER",
\* "closed" (a message with 'Target closed') or "other"
StartCatchResult(r, err) ==
    LET r1 == IF r.status # "CLOSING" THEN [r EXCEPT !.status = "READY"] ELSE r
    IN  [r1 EXCEPT !.recordingStartTime = NULL]

StartCatchCode(r, err) ==
    IF r.status = "CLOSING" \/ err = "ABORTED_BY_USER" \/ err = "closed"
    THEN "ABORTED_BY_USER" ELSE "RECORDING_START_FAILED"

StartCatch(i, r, err) ==
    /\ Become(StartCatchResult(r, err))
    /\ Failed(i)
    /\ Resolve(i, Ret("startRecording", "E", StartCatchCode(r, err), calls[i].cancelled))

\* the recording begins with the buffer of actions left as it is
StartBeginKeepsActions(r) ==
    [r EXCEPT !.status = "RECORDING",
              !.recordedErrors = <<>>, !.recordingStartTime = now]

\* lines 815-820: the recording begins
StartBegin(r) ==
    [r EXCEPT !.status = "RECORDING", !.recordedActions = <<>>,
              !.recordedErrors = <<>>, !.recordingStartTime = now]

\* lines 806-811: the state check of startRecording(); "none": the call goes on
StartRecordingCheck(r) ==
    IF r.status = "RECORDING" THEN "ALREADY_RECORDING"
    ELSE IF r.status # "READY" THEN "NO_PAGE_FOUND"
    ELSE "none"

\* startRecording(), up to the first await (page.evaluate of the window size);
\* with this.page null the evaluate throws a TypeError into the catch block.
StartRecording ==
    IF StartRecordingCheck(Self) # "none"
    THEN /\ Returns(Ret("startRecording", "E", StartRecordingCheck(Self), FALSE))
         /\ Quiet /\ UNCHANGED <<calls, driverVars, starts, opened>>
    ELSE /\ starts < MaxStarts
         /\ starts' = starts + 1
         /\ UNCHANGED driverVars
         /\ IF page = NULL
            THEN /\ Become(StartCatchResult(StartBegin(Self), "other"))
                 /\ Returns(Ret("startRecording", "E",
                                StartCatchCode(StartBegin(Self), "other"), FALSE))
                 /\ opened' = NotOpened
                 /\ UNCHANGED calls
            ELSE /\ HasFree
                 /\ Become(StartBegin(Self))
                 /\ Suspend(FreeSlot, Call("startRecording", "size", page, "none", FALSE))
                 /\ opened' = [open |-> TRUE, slot |-> FreeSlot]
                 /\ NoReturn

\* a document in which no script has run
NewDocument == [u4arec |-> FALSE, listeners |-> 0]

\* the capture script without its guard
InjectionScriptUnguarded(d) == [d EXCEPT !.u4arec = TRUE, !.listeners = @ + 1]

\* lines 1060-1067 and 1210-1214: the capture script runs in a document; the
\* listeners are registered at once or on DOMContentLoaded
InjectionScript(d) ==
    IF d.u4arec THEN d
    ELSE [d EXCEPT !.u4arec = TRUE, !.listeners = @ + 1]

\* lines 864-866 with the flag never looked at
OnNewDocumentAlways(s, r) == [s EXCEPT ![r.page].newDocument = @ + 1]

\* lines 864-866: evaluateOnNewDocument(script) is called unless the flag is set
OnNewDocument(s, r) ==
    IF r.isScriptInjected THEN s
    ELSE [s EXCEPT ![r.page].newDocument = @ + 1]

\* lines 855-868: the injection promises are created on this.page
StartInject(i, r) ==
    IF r.page = NULL
    THEN StartCatch(i, r, "other") /\ UNCHANGED scripts
    ELSE /\ Become([r EXCEPT !.isScriptInjected = TRUE])
         /\ scripts' = OnNewDocument(scripts, r)
         /\ Suspend(i, [calls[i] EXCEPT !.pc = "inject", !.b = r.page])
         /\ NoReturn /\ UNCHANGED opened

\* await this.page.evaluate(size) resumes: the initial browser_resize is pushed
SizeResumed(i) ==
    /\ calls[i].op = "startRecording" /\ calls[i].pc = "size"
    /\ UNCHANGED <<driverVars, starts>>
    /\ \E o \in Outcome(calls[i].b) : \E initialSize \in Sizes :
        IF o = "ok"
        THEN IF status = "CLOSING"
             THEN StartCatch(i, Self, "ABORTED_BY_USER") /\ initialSize = 1 /\ UNCHANGED scripts
             ELSE LET r == PushAction(Self, Action("browser_resize", initialSize, initialSize))
                  IN  IF r.page # NULL
                      THEN /\ Become(r)
                           /\ Suspend(i, [calls[i] EXCEPT !.pc = "expose", !.b = r.page])
                           /\ NoReturn /\ UNCHANGED <<opened, scripts>>
                      ELSE StartInject(i, r)
        ELSE StartCatch(i, Self, o) /\ initialSize = 1 /\ UNCHANGED scripts

\* await this.page.exposeFunction(...) resumes; a rejection (the name exists
\* already, or the page is gone) is swallowed unless the status is CLOSING
ExposeResumed(i) ==
    /\ calls[i].op = "startRecording" /\ calls[i].pc = "expose"
    /\ UNCHANGED <<up, launched, handler, listeners, injected, starts>>
    /\ LET b == calls[i].b IN
       \E o \in IF exposed[b] THEN {"error"} ELSE Outcome(b) :
        IF o = "ok"
        THEN /\ exposed' = [exposed EXCEPT ![b] = TRUE]
             /\ StartInject(i, Self)
        ELSE /\ UNCHANGED exposed
             /\ IF status = "CLOSING"
                THEN StartCatch(i, Self, "ABORTED_BY_USER") /\ UNCHANGED scripts
                ELSE StartInject(i, Self)

\* await Promise.all([evaluate(script), evaluateOnNewDocument(script)]) resumes
InjectResumed(i) ==
    /\ calls[i].op = "startRecording" /\ calls[i].pc = "inject"
    /\ UNCHANGED <<up, launched, handler, listeners, exposed, starts>>
    /\ LET b == calls[i].b IN
       \E o \in Outcome(b) :
        IF o = "ok"
        THEN /\ injected' = [injected EXCEPT ![b] = TRUE]
             /\ scripts' = [scripts EXCEPT ![b].document = InjectionScript(@)]
             /\ IF status = "CLOSING"
                THEN StartCatch(i, Self, "ABORTED_BY_USER")
                ELSE /\ Resolve(i, Ret("startRecording", "S", "none", calls[i].cancelled))
                     /\ Succeeded(i)
                     /\ Quiet
        ELSE /\ UNCHANGED <<injected, scripts>>
             /\ StartCatch(i, Self, o)

\* stopRecording() with the assignment of READY lost
StopRecordingStaysRecording(r) ==
    IF r.status # "RECORDING" THEN r
    ELSE EmitStop(Finalize([r EXCEPT !.recordingEndTime = now]))

\* stopRecording() (synchronous)
StopRecordingResult(r) ==
    IF r.status # "RECORDING" THEN r
    ELSE [EmitStop(Finalize([r EXCEPT !.recordingEndTime = now])) EXCEPT !.status = "READY"]

StopRecordingCode(r) ==
    IF r.status # "RECORDING" THEN Ret("stopRecording", "E", "NOT_RECORDING", FALSE)
    ELSE Ret("stopRecording", "S", "none", FALSE)

StopRecording ==
    /\ Become(StopRecordingResult(Self))
    /\ Returns(StopRecordingCode(Self))
    /\ opened' = IF status = "RECORDING" THEN NotOpened ELSE opened
    /\ UNCHANGED <<calls, driverVars, starts>>

\* the end of close() with the emit lost (as the Replayer's close() ends)
CloseEndSilent(r) == ResetState(r)

\* the end of close() with the buffers handed over first
CloseEndFinalizes(r) == ResetState(Emit(Finalize(r), "close", "signal", <<>>))

\* the end of close() with _resetState() lost
CloseEndNoReset(r) == Emit(r, "close", "signal", <<>>)

\* the end of close() (lines 973-976)
CloseEnd(r) == ResetState(Emit(r, "close", "signal", <<>>))

\* close() passed its state check: a launchPage pending in LAUNCHING and
\* every pending startRecording were called before it and resolve after it
Cancelled(cs) ==
    [i \in Slots |-> IF \/ cs[i].op = "launchPage" /\ status = "LAUNCHING"
                        \/ cs[i].op = "startRecording"
                     THEN [cs[i] EXCEPT !.cancelled = TRUE] ELSE cs[i]]

\* close(), up to the first await (browser.pages())
Close ==
    /\ UNCHANGED <<driverVars, starts>>
    /\ IF status = "IDLE" \/ status = "CLOSING"
       THEN /\ Returns(Ret("closeIgnored", "none", "none", FALSE))
            /\ Quiet /\ UNCHANGED <<calls, opened>>
       ELSE LET r == [Self EXCEPT !.status = "CLOSING"] IN
            /\ opened' = NotOpened
            /\ IF browser # NULL /\ up[browser]
               THEN /\ HasFree
                    /\ Become(r)
                    /\ calls' = [Cancelled(calls) EXCEPT
                                    ![FreeSlot] = Call("close", "pages", browser, "none", FALSE)]
                    /\ NoReturn
               ELSE /\ Become(CloseEnd(r))
                    /\ calls' = Cancelled(calls)
                    /\ Returns(Ret("close", "none", "none", FALSE))

\* await this.browser.pages() resumes; a rejection goes to the catch (a warning)
ClosePagesResumed(i) ==
    /\ calls[i].op = "close" /\ calls[i].pc = "pages"
    /\ UNCHANGED <<driverVars, starts>>
    /\ \E o \in Outcome(calls[i].b) \ {"error"} :
        IF o = "ok"
        THEN /\ Suspend(i, [calls[i] EXCEPT !.pc = "pageClose"])
             /\ Quiet /\ NoReturn
        ELSE /\ Become(CloseEnd(Self))
             /\ Resolve(i, Ret("close", "none", "none", FALSE))

\* await Promise.all(pages.map(page.close().catch)) resumes (it never rejects);
\* this.browser.close() is called: with this.browser null the TypeError is caught
ClosePageCloseResumed(i) ==
    /\ calls[i].op = "close" /\ calls[i].pc = "pageClose"
    /\ UNCHANGED <<driverVars, starts>>
    /\ IF browser = NULL
       THEN /\ Become(CloseEnd(Self))
            /\ Resolve(i, Ret("close", "none", "none", FALSE))
       ELSE /\ Suspend(i, [calls[i] EXCEPT !.pc = "browserClose", !.b = browser])
            /\ Quiet /\ NoReturn

\* await this.browser.close() resumes: the browser is gone
CloseBrowserCloseResumed(i) ==
    /\ calls[i].op = "close" /\ calls[i].pc = "browserClose"
    /\ ~up[calls[i].b]
    /\ UNCHANGED <<driverVars, starts>>
    /\ Become(CloseEnd(Self))
    /\ Resolve(i, Ret("close", "none", "none", FALSE))

\* ------------------------------------------------- the browser and the page
\* Browser b disconnects: the user closes the window, it crashes, or a
\* browser.close() of the code takes effect.  The once-handler runs, if any.
Disconnect(b) ==
    /\ up[b]
    /\ up' = [up EXCEPT ![b] = FALSE]
    /\ handler' = [handler EXCEPT ![b] = FALSE]
    /\ Become(IF handler[b] THEN DisconnectedHandler(Self) ELSE Self)
    /\ opened' = IF handler[b] /\ status # "CLOSING" THEN NotOpened ELSE opened
    /\ NoReturn /\ UNCHANGED <<calls, launched, listeners, exposed, injected, starts>>

\* A recorded event uses up the budget; one that is dropped changes nothing.
Recorded(r) ==
    /\ r # Self
    /\ events < MaxEvents
    /\ events' = events + 1
    /\ Become(r)

\* the capture script calls __u4arecCallback(action)
PageCallback(b) ==
    /\ up[b] /\ exposed[b] /\ injected[b]
    /\ \E a \in UserActions : Recorded(OnUserAction(Self, a))

\* the page reports a console error or a page error
ConsoleError(b) ==
    /\ up[b] /\ listeners[b]
    /\ Recorded(OnConsoleError(Self))

\* the page reports a failed request
RequestFailed(b) ==
    /\ up[b] /\ listeners[b]
    /\ \E errorText \in {"net::ERR_ABORTED", "net::ERR_FAILED"} :
        Recorded(OnRequestFailed(Self, errorText))

\* ================================================================ Replayer
RpSelf ==
    [status |-> rpStatus, browser |-> rpBrowser, page |-> rpPage,
     effects |-> effects, consoleErrors |-> consoleErrors, emitted |-> <<>>]

RpBecome(r) ==
    /\ rpStatus' = r.status
    /\ rpBrowser' = r.browser
    /\ rpPage' = r.page
    /\ effects' = r.effects
    /\ consoleErrors' = r.consoleErrors
    /\ rpEmitted' = r.emitted

RpQuiet == RpBecome(RpSelf)

RpNoReturn == rpLastRet' = NoRet

RpReturns(ret) == rpLastRet' = ret

RpSuspend(i, c) == rpCalls' = [rpCalls EXCEPT ![i] = c]

RpResolve(i, ret) == rpCalls' = [rpCalls EXCEPT ![i] = Free] /\ rpLastRet' = ret

RpHasFree == \E i \in Slots : rpCalls[i] = Free

RpFreeSlot ==
    CHOOSE i \in Slots : rpCalls[i] = Free /\ \A j \in Slots : j < i => rpCalls[j] # Free

RpOutcome(b) == IF rpUp[b] THEN {"ok", "error"} ELSE {"closed"}

rpDriverVars == <<rpUp, rpLaunched, rpHandler, rpListeners>>

RpEmit(r, ch, kind, items) ==
    [r EXCEPT !.emitted = Append(@, Emission(ch, kind, items, r.status, NULL))]

RpResetState(r) ==
    [r EXCEPT !.browser = NULL, !.page = NULL, !.effects = NULL,
              !.consoleErrors = <<>>, !.status = "IDLE"]

\* the Replayer's disconnected handler, emitting 'close' as the Recorder's does
RpDisconnectedHandlerEmits(r) ==
    IF r.status # "CLOSING" THEN RpResetState(RpEmit(r, "close", "signal", <<>>)) ELSE r

\* browser.once('disconnected', ...) registered by _registerBrowserEvents
RpDisconnectedHandler(r) ==
    IF r.status # "CLOSING" THEN RpResetState(r) ELSE r

\* page.on('console' / 'pageerror' / 'requestfailed'): no state check
RpOnConsoleError(r, type) ==
    LET errData == [type |-> type, timestamp |-> now]
    IN  RpEmit([r EXCEPT !.consoleErrors = Append(@, errData)],
               "console-error", "item", <<errData>>)

\* close() entered with the instance r: what it does before its first await.
\*   "skip"    : status IDLE or CLOSING, it returns at once
\*   "done"    : no connected browser, _resetState() ran
\*   "suspend" : it waits for this.browser.pages()
RpCloseEntry(r) ==
    IF r.status = "IDLE" \/ r.status = "CLOSING" THEN "skip"
    ELSE IF r.browser # NULL /\ rpUp[r.browser] THEN "suspend"
    ELSE "done"

RpCloseBegin(r) ==
    CASE RpCloseEntry(r) = "skip" -> r
      [] RpCloseEntry(r) = "suspend" -> [r EXCEPT !.status = "CLOSING"]
      [] OTHER -> RpResetState([r EXCEPT !.status = "CLOSING"])

\* launchPage()'s return after the close() of its catch block (lines 129-132)
RpLaunchCatchRet(r, cancelled) ==
    IF r.status = "CLOSING"
    THEN Ret("launchPage", "E", "BROWSER_CLOSED", cancelled)
    ELSE Ret("launchPage", "E", "LAUNCH_FAILED", cancelled)

\* launchPage()'s catch block: await this.close(), then the envelope
RpLaunchCatch(i, r) ==
    IF RpCloseEntry(r) = "suspend"
    THEN /\ RpBecome(RpCloseBegin(r))
         /\ RpSuspend(i, [rpCalls[i] EXCEPT !.pc = "closePages", !.b = r.browser])
         /\ RpNoReturn
    ELSE /\ RpBecome(RpCloseBegin(r))
         /\ RpResolve(i, RpLaunchCatchRet(RpCloseBegin(r), rpCalls[i].cancelled))

\* launchPage(), up to the first await (puppeteer.launch)
RpLaunchPage ==
    IF rpStatus # "IDLE"
    THEN /\ RpReturns(Ret("launchPage", "E", "ALREADY_LAUNCHED", FALSE))
         /\ RpQuiet /\ UNCHANGED <<rpCalls, rpDriverVars>>
    ELSE /\ RpHasFree
         /\ rpLaunched + Cardinality({i \in Slots : rpCalls[i].pc = "launch"}) < MaxBrowsers
         /\ RpBecome([RpSelf EXCEPT !.status = "LAUNCHING"])
         /\ RpSuspend(RpFreeSlot, Call("launchPage", "launch", NULL, "none", FALSE))
         /\ RpNoReturn /\ UNCHANGED rpDriverVars

\* this.browser = await puppeteer.launch(...) resumes (lines 94-101)
RpLaunchResumed(i) ==
    /\ rpCalls[i].op = "launchPage" /\ rpCalls[i].pc = "launch"
    /\ \E o \in {"ok", "error"} :
        IF o = "ok"
        THEN LET b == rpLaunched + 1
                 r == [RpSelf EXCEPT !.browser = b]
             IN  /\ rpLaunched' = b
                 /\ rpUp' = [rpUp EXCEPT ![b] = TRUE]
                 /\ UNCHANGED <<rpHandler, rpListeners>>
                 /\ RpBecome(r)
                 /\ IF r.status = "CLOSING"
                    THEN RpResolve(i, Ret("launchPage", "E", "BROWSER_CLOSED",
                                          rpCalls[i].cancelled))
                    ELSE RpSuspend(i, [rpCalls[i] EXCEPT !.pc = "pages", !.b = b])
                         /\ RpNoReturn
        ELSE /\ RpLaunchCatch(i, RpSelf)
             /\ UNCHANGED rpDriverVars

\* lines 107-112: this.page, this.effects, _registerBrowserEvents(), goto
RpLaunchAdopt(i, b) ==
    LET r == [RpSelf EXCEPT !.page = b, !.effects = b]
        registers == r.browser # NULL
    IN  /\ RpBecome(r)
        /\ rpHandler' = IF registers THEN [rpHandler EXCEPT ![r.browser] = TRUE] ELSE rpHandler
        /\ rpListeners' = IF registers THEN [rpListeners EXCEPT ![b] = TRUE] ELSE rpListeners
        /\ RpSuspend(i, [rpCalls[i] EXCEPT !.pc = "goto", !.b = b])
        /\ RpNoReturn /\ UNCHANGED <<rpUp, rpLaunched>>

\* await this.browser.pages() resumes; without a first page this.browser.newPage()
\* is called, a TypeError if this.browser is null by now
RpPagesResumed(i) ==
    /\ rpCalls[i].op = "launchPage" /\ rpCalls[i].pc = "pages"
    /\ LET b == rpCalls[i].b IN
       \E o \in RpOutcome(b) : \E hasPage \in BOOLEAN :
        IF o = "ok"
        THEN IF hasPage
             THEN RpLaunchAdopt(i, b)
             ELSE IF rpBrowser = NULL
             THEN RpLaunchCatch(i, RpSelf) /\ UNCHANGED rpDriverVars
             ELSE /\ RpSuspend(i, [rpCalls[i] EXCEPT !.pc = "newPage", !.b = rpBrowser])
                  /\ RpQuiet /\ RpNoReturn /\ UNCHANGED rpDriverVars
        ELSE /\ hasPage
             /\ RpLaunchCatch(i, RpSelf) /\ UNCHANGED rpDriverVars

\* await this.browser.newPage() resumes
RpNewPageResumed(i) ==
    /\ rpCalls[i].op = "launchPage" /\ rpCalls[i].pc = "newPage"
    /\ LET b == rpCalls[i].b IN
       \E o \in RpOutcome(b) :
        IF o = "ok"
        THEN RpLaunchAdopt(i, b)
        ELSE RpLaunchCatch(i, RpSelf) /\ UNCHANGED rpDriverVars

\* await this.page.goto(...) resumes (lines 114-121)
RpGotoResumed(i) ==
    /\ rpCalls[i].op = "launchPage" /\ rpCalls[i].pc = "goto"
    /\ UNCHANGED rpDriverVars
    /\ \E o \in RpOutcome(rpCalls[i].b) :
        IF o = "ok"
        THEN IF rpStatus = "CLOSING"
             THEN /\ RpQuiet
                  /\ RpResolve(i, Ret("launchPage", "E", "BROWSER_CLOSED",
                                      rpCalls[i].cancelled))
             ELSE IF rpOption.visualEffects
             THEN IF effects = NULL
                  THEN RpLaunchCatch(i, RpSelf)
                  ELSE /\ RpSuspend(i, [rpCalls[i] EXCEPT !.pc = "inject", !.b = effects])
                       /\ RpQuiet /\ RpNoReturn
             ELSE /\ RpBecome([RpSelf EXCEPT !.status = "LAUNCHED"])
                  /\ RpResolve(i, Ret("launchPage", "S", "none", rpCalls[i].cancelled))
        ELSE RpLaunchCatch(i, RpSelf)

\* await this.effects.inject() resumes; inject() swallows its errors
\* (ReplayerEffects.js 28-360)
RpInjectResumed(i) ==
    /\ rpCalls[i].op = "launchPage" /\ rpCalls[i].pc = "inject"
    /\ UNCHANGED rpDriverVars
    /\ RpBecome([RpSelf EXCEPT !.status = "LAUNCHED"])
    /\ RpResolve(i, Ret("launchPage", "S", "none", rpCalls[i].cancelled))

\* close() passed its state check: a launchPage pending in LAUNCHING was
\* called before it and resolves after it
RpCancelled(cs) ==
    [i \in Slots |-> IF cs[i].op = "launchPage" /\ rpStatus = "LAUNCHING"
                     THEN [cs[i] EXCEPT !.cancelled = TRUE] ELSE cs[i]]

\* close() called from outside, up to its first await
RpClose ==
    /\ UNCHANGED rpDriverVars
    /\ RpBecome(RpCloseBegin(RpSelf))
    /\ CASE RpCloseEntry(RpSelf) = "skip" ->
               /\ RpReturns(Ret("closeIgnored", "none", "none", FALSE))
               /\ UNCHANGED rpCalls
         [] RpCloseEntry(RpSelf) = "suspend" ->
               /\ RpHasFree
               /\ rpCalls' = [RpCancelled(rpCalls) EXCEPT
                                 ![RpFreeSlot] = Call("close", "closePages", rpBrowser, "none", FALSE)]
               /\ RpNoReturn
         [] OTHER ->
               /\ rpCalls' = RpCancelled(rpCalls)
               /\ RpReturns(Ret("close", "none", "none", FALSE))

\* close() ends with _resetState(); the caller is an outside call, or the
\* catch block of launchPage, which returns its envelope after it
RpCloseDone(i) ==
    /\ RpBecome(RpResetState(RpSelf))
    /\ IF rpCalls[i].op = "close"
       THEN RpResolve(i, Ret("close", "none", "none", FALSE))
       ELSE RpResolve(i, RpLaunchCatchRet(RpResetState(RpSelf), rpCalls[i].cancelled))

\* await this.browser.pages() of close() resumes; a rejection is caught
RpClosePagesResumed(i) ==
    /\ rpCalls[i].pc = "closePages"
    /\ UNCHANGED rpDriverVars
    /\ \E o \in RpOutcome(rpCalls[i].b) \ {"error"} :
        IF o = "ok"
        THEN /\ RpSuspend(i, [rpCalls[i] EXCEPT !.pc = "closePageClose"])
             /\ RpQuiet /\ RpNoReturn
        ELSE RpCloseDone(i)

\* await Promise.all(page.close()...) resumes; this.browser.close() is called
RpClosePageCloseResumed(i) ==
    /\ rpCalls[i].pc = "closePageClose"
    /\ UNCHANGED rpDriverVars
    /\ IF rpBrowser = NULL
       THEN RpCloseDone(i)
       ELSE /\ RpSuspend(i, [rpCalls[i] EXCEPT !.pc = "closeBrowserClose", !.b = rpBrowser])
            /\ RpQuiet /\ RpNoReturn

\* await this.browser.close() resumes: the browser is gone
RpCloseBrowserCloseResumed(i) ==
    /\ rpCalls[i].pc = "closeBrowserClose"
    /\ ~rpUp[rpCalls[i].b]
    /\ UNCHANGED rpDriverVars
    /\ RpCloseDone(i)

\* browser b disconnects
RpDisconnect(b) ==
    /\ rpUp[b]
    /\ rpUp' = [rpUp EXCEPT ![b] = FALSE]
    /\ rpHandler' = [rpHandler EXCEPT ![b] = FALSE]
    /\ RpBecome(IF rpHandler[b] THEN RpDisconnectedHandler(RpSelf) ELSE RpSelf)
    /\ RpNoReturn /\ UNCHANGED <<rpCalls, rpLaunched, rpListeners>>

\* the page reports a console error, a page error or a failed request
RpConsoleError(b) ==
    /\ rpUp[b] /\ rpListeners[b]
    /\ rpEvents < MaxEvents
    /\ rpEvents' = rpEvents + 1
    /\ \E type \in {"BROWSER_CONSOLE_ERROR", "REQUEST_ERROR"} :
        RpBecome(RpOnConsoleError(RpSelf, type))
    /\ RpNoReturn /\ UNCHANGED <<rpCalls, rpDriverVars>>

\* ------------------------------------------------------------------ play()
\* recordData as play() reads it: whether recordData.actions is an array, and
\* its length
RecordData ==
    {[array |-> FALSE, n |-> 0]} \cup {[array |-> TRUE, n |-> k] : k \in 0..MaxActions}

\* The executors _executeAction switches to: click stands for the ones whose
\* driver calls reject into the caller (click, input, change, keydown, scroll),
\* browser_resize catches its own errors (lines 637-645).
ActionTypes == {"click", "browser_resize"}

\* The locals of a running play(): the index i of the loop, actions.length,
\* the polls of the busy waiter (elapsed / interval), the type of the action
\* being executed, and what happened to the Replayer since play() began
\* ("stop", "close", "disconnect", "play").
Locals(i, n, elapsed, type, disturbed) ==
    [i |-> i, n |-> n, elapsed |-> elapsed, type |-> type, disturbed |-> disturbed]

NoLocals == Locals(0, 0, 0, "none", {})

\* the envelope of play(): RDATA.consoleErrors where the return has it, the
\* step MSGTX names (MSGTX is error.message: none), and the locals at return
PlayRet(retcd, stcod, r, l, rdata) ==
    [op |-> "play", RETCD |-> retcd, STCOD |-> stcod, cancelled |-> FALSE,
     RDATA |-> rdata, consoleErrors |-> IF rdata THEN r.consoleErrors ELSE <<>>,
     step |-> NULL, i |-> l.i, n |-> l.n, disturbed |-> l.disturbed, array |-> TRUE]

\* the envelope of a play(recordData) that returns at its checks
PlayRefused(stcod, recordData) ==
    [PlayRet("E", stcod, [consoleErrors |-> <<>>], NoLocals, FALSE) EXCEPT
        !.n = recordData.n, !.array = recordData.array]

\* what happened is noted on every running play()
Disturb(label) ==
    [i \in Slots |-> IF rpCalls[i].op = "play"
                     THEN [rpLocals[i] EXCEPT !.disturbed = @ \cup {label}]
                     ELSE rpLocals[i]]

\* page.isClosed() of page p: true once close() has closed the pages, either
\* while page.close() is pending or after the browser disconnected
RpIsClosed(p) ==
    IF ~rpUp[p] THEN BOOLEAN
    ELSE IF \E i \in Slots : rpCalls[i].pc = "closeBrowserClose" /\ rpCalls[i].b = p THEN {TRUE}
    ELSE IF \E i \in Slots : rpCalls[i].pc = "closePageClose" /\ rpCalls[i].b = p THEN BOOLEAN
    ELSE {FALSE}

\* !this.page || this.page.isClosed()
RpPageGone(p) == IF p = NULL THEN {TRUE} ELSE RpIsClosed(p)

\* a driver call on page p resolves, rejects, or rejects with 'Target closed'
RpPageOutcome(p) ==
    IF p = NULL THEN {"error"}
    ELSE IF ~rpUp[p] THEN {"closed"}
    ELSE IF \E i \in Slots : rpCalls[i].pc = "closeBrowserClose" /\ rpCalls[i].b = p THEN {"closed"}
    ELSE IF \E i \in Slots : rpCalls[i].pc = "closePageClose" /\ rpCalls[i].b = p
    THEN {"ok", "error", "closed"}
    ELSE {"ok", "error"}

\* this.option.visualEffects && this.effects
RpHasEffects(r) == rpOption.visualEffects /\ r.effects # NULL

\* _hideReplayIndicatorSafe() reaches a driver call: safeExecute returns at
\* once when the page is missing or closed (ReplayerEffects.js 405)
RpHides(r, gone) == RpHasEffects(r) /\ ~gone

\* the locals of the other calls after a step of the play() in slot s: a
\* play() that begins (its slot was free) is noted on the running ones
RpOthers(s) == IF rpCalls[s] = Free THEN Disturb("play") ELSE rpLocals

\* play() suspends at an await
RpPlayGoes(s, r, pc, err, l) ==
    /\ RpBecome(r)
    /\ rpCalls' = [rpCalls EXCEPT ![s] = Call("play", pc, r.page, err, FALSE)]
    /\ rpLocals' = [RpOthers(s) EXCEPT ![s] = l]
    /\ RpNoReturn

\* play() returns
RpPlayEnds(s, r, ret) ==
    /\ RpBecome(r)
    /\ rpCalls' = [rpCalls EXCEPT ![s] = Free]
    /\ rpLocals' = [RpOthers(s) EXCEPT ![s] = NoLocals]
    /\ rpLastRet' = ret

\* the catch block of play() after _hideReplayIndicatorSafe() (lines 288-296)
RpPlayCatchEnd(s, r, err, l) ==
    IF err = "BUSY_TIMEOUT"
    THEN RpPlayEnds(s, r, PlayRet("E", "BUSY_TIMEOUT", r, l, TRUE))
    ELSE IF err = "closed" \/ r.page = NULL
    THEN RpPlayEnds(s, [r EXCEPT !.status = "IDLE"], PlayRet("E", "BROWSER_CLOSED", r, l, TRUE))
    ELSE RpPlayEnds(s, r, PlayRet("E", "ACTION_FAILED", r, l, TRUE))

\* a catch block of play() that leaves the status as it finds it
RpPlayCatchKeepsStatus(s, r, err, l, gone) ==
    IF RpHides(r, gone)
    THEN RpPlayGoes(s, r, "hideCatch", err, l)
    ELSE RpPlayCatchEnd(s, r, err, l)

\* the catch block of play(): status LAUNCHED, then the indicator is hidden
\* (lines 283-286)
RpPlayCatch(s, r, err, l, gone) ==
    LET q == [r EXCEPT !.status = "LAUNCHED"]
    IN  IF RpHides(q, gone)
        THEN RpPlayGoes(s, q, "hideCatch", err, l)
        ELSE RpPlayCatchEnd(s, q, err, l)

\* after the loop and the hidden indicator: emit('finish'), LAUNCHED, 'S'
\* (lines 276-281)
RpPlayFinishEnd(s, r, l) ==
    RpPlayEnds(s, [RpEmit(r, "finish", "signal", <<>>) EXCEPT !.status = "LAUNCHED"],
               PlayRet("S", "none", r, l, TRUE))

\* after the loop (line 275)
RpPlayFinish(s, r, l, gone) ==
    IF RpHides(r, gone)
    THEN RpPlayGoes(s, r, "hideFinish", "none", l)
    ELSE RpPlayFinishEnd(s, r, l)

\* the loop found the status changed, the indicator is hidden (lines 209-214)
RpPlayStoppedEnd(s, r, l) ==
    IF r.status = "CLOSING"
    THEN RpPlayEnds(s, r, PlayRet("E", "BROWSER_CLOSED", r, l, TRUE))
    ELSE RpPlayEnds(s, r, PlayRet("E", "REPLAY_STOPPED", r, l, TRUE))

\* the loop found the status changed (lines 206-207)
RpPlayStopped(s, r, l, gone) ==
    IF RpHides(r, gone)
    THEN RpPlayGoes(s, r, "hideStop", "none", l)
    ELSE RpPlayStoppedEnd(s, r, l)

\* _waitForBusyIndicator at the top of its while loop (lines 493-499): without
\* a page it returns, and _executeAction throws 'Target closed' (line 524)
RpWaitForBusyIndicator(s, r, l, gone) ==
    IF gone
    THEN RpPlayCatch(s, r, "closed", l, gone)
    ELSE RpPlayGoes(s, r, "busy", "none", l)

\* the top of the loop of play() with index l.i (lines 203-219)
RpLoop(s, r, l, gone) ==
    IF l.i > l.n THEN RpPlayFinish(s, r, l, gone)
    ELSE IF r.status # "PLAYING" THEN RpPlayStopped(s, r, l, gone)
    ELSE RpWaitForBusyIndicator(s, r, [l EXCEPT !.elapsed = 0], gone)

\* a loop that does not advance its index after an action
RpAfterActionRepeats(s, r, l, gone, wait) ==
    IF wait
    THEN RpPlayGoes(s, r, "delay", "none", l)
    ELSE RpLoop(s, r, l, gone)

\* after _executeAction: the delay to the next action or the final delay
\* (lines 234-271), wait: the computed waitTime is positive
RpAfterAction(s, r, l, gone, wait) ==
    IF wait
    THEN RpPlayGoes(s, r, "delay", "none", l)
    ELSE RpLoop(s, r, [l EXCEPT !.i = @ + 1], gone)

\* _executeAction(actions[l.i]) (lines 523-538): a missing page throws, a
\* status other than PLAYING returns without dispatching, else the action is
\* emitted and its executor awaited
RpExecuteAction(s, r, l, gone, type, wait) ==
    IF gone THEN RpPlayCatch(s, r, "closed", l, gone)
    ELSE IF r.status # "PLAYING" THEN RpAfterAction(s, r, l, gone, wait)
    ELSE RpPlayGoes(s, RpEmit(r, "action", "item", <<[type |-> type, index |-> l.i]>>),
                    "exec", "none", [l EXCEPT !.type = type])

\* the checks of play(recordData) in this order: the data (line 162), the
\* state (line 171), the length (line 180)
RpPlayCheckStateFirst(r, recordData) ==
    IF r.status # "LAUNCHED" THEN "NO_PAGE_FOUND"
    ELSE IF ~recordData.array THEN "INVALID_DATA"
    ELSE IF recordData.n = 0 THEN "INVALID_DATA"
    ELSE "none"

RpPlayCheck(r, recordData) ==
    IF ~recordData.array THEN "INVALID_DATA"
    ELSE IF r.status # "LAUNCHED" THEN "NO_PAGE_FOUND"
    ELSE IF recordData.n = 0 THEN "INVALID_DATA"
    ELSE "none"

\* play(recordData), up to its first await (lines 159-219)
RpPlay ==
    /\ UNCHANGED rpDriverVars
    /\ \E recordData \in RecordData : \E gone \in RpPageGone(rpPage) :
        IF RpPlayCheck(RpSelf, recordData) # "none"
        THEN /\ RpReturns(PlayRefused(RpPlayCheck(RpSelf, recordData), recordData))
             /\ RpQuiet /\ UNCHANGED <<rpCalls, rpLocals, rpPlays>>
        ELSE /\ RpHasFree
             /\ rpPlays < MaxPlays
             /\ rpPlays' = rpPlays + 1
             /\ LET r == [RpSelf EXCEPT !.status = "PLAYING"]
                    l == Locals(1, recordData.n, 0, "none", {})
                IN  IF RpHasEffects(r)
                    THEN RpPlayGoes(RpFreeSlot, r, "show", "none", l)
                    ELSE RpLoop(RpFreeSlot, r, l, gone)

\* await this.effects.inject(); await this.effects.showReplayIndicator()
\* resume: both swallow their errors; the loop begins
RpShowResumed(i) ==
    /\ rpCalls[i].op = "play" /\ rpCalls[i].pc = "show"
    /\ UNCHANGED <<rpDriverVars, rpPlays>>
    /\ \E gone \in RpPageGone(rpPage) : RpLoop(i, RpSelf, rpLocals[i], gone)

\* await this.page.evaluate(...) of _waitForBusyIndicator resumes (lines
\* 499-508); not busy: _executeAction
RpBusyResumed(i) ==
    /\ rpCalls[i].op = "play" /\ rpCalls[i].pc = "busy"
    /\ UNCHANGED <<rpDriverVars, rpPlays>>
    /\ \E o \in RpPageOutcome(rpCalls[i].b) : \E gone \in RpPageGone(rpPage) :
        IF o = "ok"
        THEN \E isBusy \in BOOLEAN :
             IF isBusy
             THEN RpPlayGoes(i, RpSelf, "busyDelay", "none", rpLocals[i])
             ELSE \E type \in ActionTypes : \E wait \in BOOLEAN :
                     RpExecuteAction(i, RpSelf, rpLocals[i], gone, type, wait)
        ELSE RpPlayCatch(i, RpSelf, o, rpLocals[i], gone)

\* await this._delay(interval) of _waitForBusyIndicator resumes (lines
\* 510-514): the timeout, or the next poll
RpBusyDelayResumed(i) ==
    /\ rpCalls[i].op = "play" /\ rpCalls[i].pc = "busyDelay"
    /\ UNCHANGED <<rpDriverVars, rpPlays>>
    /\ \E gone \in RpPageGone(rpPage) :
        LET l == [rpLocals[i] EXCEPT !.elapsed = @ + 1]
        IN  IF l.elapsed >= MaxPolls
            THEN RpPlayCatch(i, RpSelf, "BUSY_TIMEOUT", l, gone)
            ELSE RpWaitForBusyIndicator(i, RpSelf, l, gone)

\* the executor of the dispatched action resumes (lines 226-228): a rejection
\* reaches the catch block of play(), except in _executeBrowserResize
RpExecResumed(i) ==
    /\ rpCalls[i].op = "play" /\ rpCalls[i].pc = "exec"
    /\ UNCHANGED <<rpDriverVars, rpPlays>>
    /\ \E o \in RpPageOutcome(rpCalls[i].b) : \E gone \in RpPageGone(rpPage) :
        IF o = "ok" \/ rpLocals[i].type = "browser_resize"
        THEN \E wait \in BOOLEAN : RpAfterAction(i, RpSelf, rpLocals[i], gone, wait)
        ELSE RpPlayCatch(i, RpSelf, o, rpLocals[i], gone)

\* await this._delay(waitTime) resumes (lines 247, 267): the next iteration
RpDelayResumed(i) ==
    /\ rpCalls[i].op = "play" /\ rpCalls[i].pc = "delay"
    /\ UNCHANGED <<rpDriverVars, rpPlays>>
    /\ \E gone \in RpPageGone(rpPage) :
        RpLoop(i, RpSelf, [rpLocals[i] EXCEPT !.i = @ + 1], gone)

\* await this._hideReplayIndicatorSafe() resumes, in the loop (207), after
\* it (275) or in the catch block (286)
RpHideResumed(i) ==
    /\ rpCalls[i].op = "play"
    /\ rpCalls[i].pc \in {"hideStop", "hideFinish", "hideCatch"}
    /\ UNCHANGED <<rpDriverVars, rpPlays>>
    /\ CASE rpCalls[i].pc = "hideStop" -> RpPlayStoppedEnd(i, RpSelf, rpLocals[i])
         [] rpCalls[i].pc = "hideFinish" -> RpPlayFinishEnd(i, RpSelf, rpLocals[i])
         [] OTHER -> RpPlayCatchEnd(i, RpSelf, rpCalls[i].err, rpLocals[i])

\* stop() (lines 355-362)
RpStop ==
    /\ UNCHANGED <<rpCalls, rpDriverVars, rpPlays>>
    /\ IF rpStatus # "PLAYING"
       THEN /\ RpReturns(Ret("stop", "E", "NOT_PLAYING", FALSE))
            /\ RpQuiet /\ UNCHANGED rpLocals
       ELSE /\ RpReturns(Ret("stop", "S", "none", FALSE))
            /\ RpBecome([RpSelf EXCEPT !.status = "LAUNCHED"])
            /\ rpLocals' = Disturb("stop")

\* reloadPage(), up to await this.page.reload (lines 139-143)
RpReloadPage ==
    /\ UNCHANGED <<rpDriverVars, rpLocals>>
    /\ RpQuiet
    /\ IF rpPage = NULL
       THEN /\ RpReturns(Ret("reloadPage", "E", "NO_PAGE_FOUND", FALSE))
            /\ UNCHANGED <<rpCalls, rpPlays>>
       ELSE /\ RpHasFree
            /\ rpPlays < MaxPlays
            /\ rpPlays' = rpPlays + 1
            /\ RpSuspend(RpFreeSlot, Call("reloadPage", "reload", rpPage, "none", FALSE))
            /\ RpNoReturn

\* reloadPage() without its try/catch: a rejected page.reload() escapes the
\* operation instead of being mapped to an envelope
RpReloadResumedThrows(i) ==
    /\ rpCalls[i].op = "reloadPage" /\ rpCalls[i].pc = "reload"
    /\ UNCHANGED <<rpDriverVars, rpLocals, rpPlays>>
    /\ RpQuiet
    /\ \E o \in RpPageOutcome(rpCalls[i].b) :
        IF o = "ok"
        THEN IF RpHasEffects(RpSelf)
             THEN RpSuspend(i, [rpCalls[i] EXCEPT !.pc = "reloadInject"]) /\ RpNoReturn
             ELSE RpResolve(i, Ret("reloadPage", "S", "none", FALSE))
        ELSE RpResolve(i, Ret("reloadPage", "throw", "none", FALSE))

\* await this.page.reload() resumes (lines 143-149)
RpReloadResumed(i) ==
    /\ rpCalls[i].op = "reloadPage" /\ rpCalls[i].pc = "reload"
    /\ UNCHANGED <<rpDriverVars, rpLocals, rpPlays>>
    /\ RpQuiet
    /\ \E o \in RpPageOutcome(rpCalls[i].b) :
        IF o = "ok"
        THEN IF RpHasEffects(RpSelf)
             THEN RpSuspend(i, [rpCalls[i] EXCEPT !.pc = "reloadInject"]) /\ RpNoReturn
             ELSE RpResolve(i, Ret("reloadPage", "S", "none", FALSE))
        ELSE IF rpStatus = "CLOSING"
        THEN RpResolve(i, Ret("reloadPage", "E", "BROWSER_CLOSED", FALSE))
        ELSE RpResolve(i, Ret("reloadPage", "E", "REQUEST_ERROR", FALSE))

\* await this.effects.inject() of reloadPage resumes (lines 144-146)
RpReloadInjectResumed(i) ==
    /\ rpCalls[i].op = "reloadPage" /\ rpCalls[i].pc = "reloadInject"
    /\ UNCHANGED <<rpDriverVars, rpLocals, rpPlays>>
    /\ RpQuiet
    /\ RpResolve(i, Ret("reloadPage", "S", "none", FALSE))

\* captureScreen(), up to await this.page.screenshot (lines 306-328)
RpCaptureScreen ==
    /\ UNCHANGED <<rpDriverVars, rpLocals>>
    /\ RpQuiet
    /\ \E gone \in RpPageGone(rpPage) :
        IF gone
        THEN /\ RpReturns(Ret("captureScreen", "E", "NO_PAGE_FOUND", FALSE))
             /\ UNCHANGED <<rpCalls, rpPlays>>
        ELSE /\ RpHasFree
             /\ rpPlays < MaxPlays
             /\ rpPlays' = rpPlays + 1
             /\ RpSuspend(RpFreeSlot, Call("captureScreen", "screenshot", rpPage, "none", FALSE))
             /\ RpNoReturn

\* await this.page.screenshot() resumes (lines 328-349)
RpScreenshotResumed(i) ==
    /\ rpCalls[i].op = "captureScreen" /\ rpCalls[i].pc = "screenshot"
    /\ UNCHANGED <<rpDriverVars, rpLocals, rpPlays>>
    /\ RpQuiet
    /\ \E o \in RpPageOutcome(rpCalls[i].b) :
        IF o = "ok"
        THEN RpResolve(i, Ret("captureScreen", "S", "none", FALSE))
        ELSE RpResolve(i, Ret("captureScreen", "E", "ACTION_FAILED", FALSE))

ReplayerInit(options) ==
    /\ rpOption \in options
    /\ rpStatus = "IDLE"
    /\ rpBrowser = NULL
    /\ rpPage = NULL
    /\ effects = NULL
    /\ consoleErrors = <<>>
    /\ rpEmitted = <<>>
    /\ rpCalls = [i \in Slots |-> Free]
    /\ rpLastRet = NoRet
    /\ rpUp = [b \in Browsers |-> FALSE]
    /\ rpLaunched = 0
    /\ rpHandler = [b \in Browsers |-> FALSE]
    /\ rpListeners = [b \in Browsers |-> FALSE]
    /\ rpEvents = 0
    /\ rpLocals = [i \in Slots |-> NoLocals]
    /\ rpPlays = 0
    /\ rpGone = FALSE

\* a step of launchPage() or close() that assigns this.status is noted on the
\* running play() calls
RpNotes(label) == IF rpStatus' # rpStatus THEN Disturb(label) ELSE rpLocals

\* the disconnected handler of browser b would reset the instance
RpUnexpected(b) == rpHandler[b] /\ rpStatus # "CLOSING"

ReplayerNext ==
    \/ RpLaunchPage /\ rpGone' = (rpGone /\ rpStatus # "IDLE")
           /\ UNCHANGED <<recVars, pureVars, rpOption, rpEvents, rpLocals, rpPlays>>
    \/ \E i \in Slots : RpLaunchResumed(i) /\ rpLocals' = RpNotes("launch")
           /\ UNCHANGED <<recVars, pureVars, rpOption, rpEvents, rpPlays, rpGone>>
    \/ \E i \in Slots : RpPagesResumed(i) /\ rpLocals' = RpNotes("launch")
           /\ UNCHANGED <<recVars, pureVars, rpOption, rpEvents, rpPlays, rpGone>>
    \/ \E i \in Slots : RpNewPageResumed(i) /\ rpLocals' = RpNotes("launch")
           /\ UNCHANGED <<recVars, pureVars, rpOption, rpEvents, rpPlays, rpGone>>
    \/ \E i \in Slots : RpGotoResumed(i) /\ rpLocals' = RpNotes("launch")
           /\ UNCHANGED <<recVars, pureVars, rpOption, rpEvents, rpPlays, rpGone>>
    \/ \E i \in Slots : RpInjectResumed(i) /\ rpLocals' = RpNotes("launch")
           /\ UNCHANGED <<recVars, pureVars, rpOption, rpEvents, rpPlays, rpGone>>
    \/ RpClose /\ rpLocals' = RpNotes("close")
           /\ UNCHANGED <<recVars, pureVars, rpOption, rpEvents, rpPlays, rpGone>>
    \/ \E i \in Slots : RpClosePagesResumed(i) /\ rpLocals' = RpNotes("close")
           /\ UNCHANGED <<recVars, pureVars, rpOption, rpEvents, rpPlays, rpGone>>
    \/ \E i \in Slots : RpClosePageCloseResumed(i) /\ rpLocals' = RpNotes("close")
           /\ UNCHANGED <<recVars, pureVars, rpOption, rpEvents, rpPlays, rpGone>>
    \/ \E i \in Slots : RpCloseBrowserCloseResumed(i) /\ rpLocals' = RpNotes("close")
           /\ UNCHANGED <<recVars, pureVars, rpOption, rpEvents, rpPlays, rpGone>>
    \/ \E b \in Browsers : RpDisconnect(b)
           /\ rpLocals' = (IF RpUnexpected(b) THEN Disturb("disconnect") ELSE rpLocals)
           /\ rpGone' = (rpGone \/ RpUnexpected(b))
           /\ UNCHANGED <<recVars, pureVars, rpOption, rpEvents, rpPlays>>
    \/ \E b \in Browsers : RpConsoleError(b) /\ UNCHANGED <<recVars, pureVars, rpOption, rpLocals, rpPlays, rpGone>>
    \/ RpPlay /\ UNCHANGED <<recVars, pureVars, rpOption, rpEvents, rpGone>>
    \/ \E i \in Slots : RpShowResumed(i) /\ UNCHANGED <<recVars, pureVars, rpOption, rpEvents, rpGone>>
    \/ \E i \in Slots : RpBusyResumed(i) /\ UNCHANGED <<recVars, pureVars, rpOption, rpEvents, rpGone>>
    \/ \E i \in Slots : RpBusyDelayResumed(i) /\ UNCHANGED <<recVars, pureVars, rpOption, rpEvents, rpGone>>
    \/ \E i \in Slots : RpExecResumed(i) /\ UNCHANGED <<recVars, pureVars, rpOption, rpEvents, rpGone>>
    \/ \E i \in Slots : RpDelayResumed(i) /\ UNCHANGED <<recVars, pureVars, rpOption, rpEvents, rpGone>>
    \/ \E i \in Slots : RpHideResumed(i) /\ UNCHANGED <<recVars, pureVars, rpOption, rpEvents, rpGone>>
    \/ RpStop /\ UNCHANGED <<recVars, pureVars, rpOption, rpEvents, rpGone>>
    \/ RpReloadPage /\ UNCHANGED <<recVars, pureVars, rpOption, rpEvents, rpGone>>
    \/ \E i \in Slots : RpReloadResumed(i) /\ UNCHANGED <<recVars, pureVars, rpOption, rpEvents, rpGone>>
    \/ \E i \in Slots : RpReloadInjectResumed(i) /\ UNCHANGED <<recVars, pureVars, rpOption, rpEvents, rpGone>>
    \/ RpCaptureScreen /\ UNCHANGED <<recVars, pureVars, rpOption, rpEvents, rpGone>>
    \/ \E i \in Slots : RpScreenshotResumed(i) /\ UNCHANGED <<recVars, pureVars, rpOption, rpEvents, rpGone>>

\* ------------------------------------------------------- the specification
RecorderInit(options) ==
    /\ option \in options
    /\ status = "IDLE"
    /\ browser = NULL
    /\ page = NULL
    /\ recordedActions = <<>>
    /\ recordedErrors = <<>>
    /\ recordingStartTime = NULL
    /\ recordingEndTime = NULL
    /\ isScriptInjected = FALSE
    /\ emitted = <<>>
    /\ calls = [i \in Slots |-> Free]
    /\ lastRet = NoRet
    /\ up = [b \in Browsers |-> FALSE]
    /\ launched = 0
    /\ handler = [b \in Browsers |-> FALSE]
    /\ listeners = [b \in Browsers |-> FALSE]
    /\ exposed = [b \in Browsers |-> FALSE]
    /\ injected = [b \in Browsers |-> FALSE]
    /\ scripts = [b \in Browsers |-> [newDocument |-> 0, document |-> NewDocument]]
    /\ starts = 0
    /\ events = 0
    /\ now = 1
    /\ opened = NotOpened
    /\ recGone = FALSE

\* the disconnected handler of browser b would reset the instance
Unexpected(b) == handler[b] /\ status # "CLOSING"

RecorderNext ==
    \/ LaunchPage /\ recGone' = (recGone /\ (status # "IDLE" \/ ~option.url))
           /\ UNCHANGED <<rpVars, pureVars, scripts, option, opened, starts, events, now>>
    \/ \E i \in Slots : LaunchResumed(i) /\ UNCHANGED <<rpVars, pureVars, scripts, option, recGone, opened, starts, events, now>>
    \/ \E i \in Slots : PagesResumed(i) /\ UNCHANGED <<rpVars, pureVars, scripts, option, recGone, opened, starts, events, now>>
    \/ \E i \in Slots : NewPageResumed(i) /\ UNCHANGED <<rpVars, pureVars, scripts, option, recGone, opened, starts, events, now>>
    \/ \E i \in Slots : GotoResumed(i) /\ UNCHANGED <<rpVars, pureVars, scripts, option, recGone, opened, starts, events, now>>
    \/ \E i \in Slots : LaunchCatchResumed(i) /\ UNCHANGED <<rpVars, pureVars, scripts, option, recGone, opened, starts, events, now>>
    \/ StartRecording /\ UNCHANGED <<rpVars, pureVars, scripts, option, recGone, events, now>>
    \/ \E i \in Slots : SizeResumed(i) /\ UNCHANGED <<rpVars, pureVars, option, recGone, events, now>>
    \/ \E i \in Slots : ExposeResumed(i) /\ UNCHANGED <<rpVars, pureVars, option, recGone, events, now>>
    \/ \E i \in Slots : InjectResumed(i) /\ UNCHANGED <<rpVars, pureVars, option, recGone, events, now>>
    \/ StopRecording /\ UNCHANGED <<rpVars, pureVars, scripts, option, recGone, events, now>>
    \/ Close /\ UNCHANGED <<rpVars, pureVars, scripts, option, recGone, events, now>>
    \/ \E i \in Slots : ClosePagesResumed(i) /\ UNCHANGED <<rpVars, pureVars, scripts, option, recGone, opened, events, now>>
    \/ \E i \in Slots : ClosePageCloseResumed(i) /\ UNCHANGED <<rpVars, pureVars, scripts, option, recGone, opened, events, now>>
    \/ \E i \in Slots : CloseBrowserCloseResumed(i) /\ UNCHANGED <<rpVars, pureVars, scripts, option, recGone, opened, events, now>>
    \/ \E b \in Browsers : Disconnect(b) /\ recGone' = (recGone \/ Unexpected(b))
           /\ UNCHANGED <<rpVars, pureVars, scripts, option, events, now>>
    \/ \E b \in Browsers : PageCallback(b) /\ NoReturn /\ UNCHANGED <<rpVars, pureVars, scripts, option, recGone, opened, calls, driverVars, starts, now>>
    \/ \E b \in Browsers : ConsoleError(b) /\ NoReturn /\ UNCHANGED <<rpVars, pureVars, scripts, option, recGone, opened, calls, driverVars, starts, now>>
    \/ \E b \in Browsers : RequestFailed(b) /\ NoReturn /\ UNCHANGED <<rpVars, pureVars, scripts, option, recGone, opened, calls, driverVars, starts, now>>

\* ------------------------------------------------------ replay loop pacing
\* The timing of play()'s loop (part_001 lines 199-272), followed on its own:
\* the timestamps of the recording, the measured execution times and the
\* waits.  A timestamp or recordingEndTime of 0 stands for one that is missing
\* (the source tests them for truthiness).
Max(a, b) == IF a >= b THEN a ELSE b

\* recordData as far as the timing reads it
PacingData ==
    [stamps : UNION {[1..n -> 0..MaxStamp] : n \in 1..MaxSteps},
     end : 0..(MaxStamp + 1)]

\* i: the index of the action at hand; timeOffset: the local of that name;
\* clock: the time since the first action was dispatched; e: the last
\* executionTime; wait: the last waitTime slept (0: no sleep); busied: a busy
\* wait took time; pc: "dispatch" before _executeAction, "pace" after it
Pacing(data) ==
    [data |-> data, i |-> 1, timeOffset |-> 0, clock |-> 0, e |-> 0, wait |-> 0,
     busied |-> FALSE, pc |-> "dispatch"]

\* lines 218-226: the busy wait, which takes busy, then _executeAction measured
\* by Date.now() before and after it
PaceExecute(p, busy, e) ==
    [p EXCEPT !.clock = @ + busy + e, !.e = e, !.busied = @ \/ busy > 0, !.pc = "pace"]

\* the inter-action delay with the carry lost: timeOffset starts from 0 again
PaceNextNoCarry(p) ==
    LET a == p.data.stamps[p.i]
        nextAction == p.data.stamps[p.i + 1]
        q == [p EXCEPT !.i = @ + 1, !.pc = "dispatch", !.wait = 0]
    IN  IF a # 0 /\ nextAction # 0
        THEN LET delay == nextAction - a
                 timeOffset == p.timeOffset + p.e
                 waitTime == Max(delay - timeOffset, 0)
             IN  [q EXCEPT !.timeOffset = 0,
                           !.wait = waitTime, !.clock = @ + waitTime]
        ELSE q

\* the inter-action delay that sleeps the whole recorded gap
PaceNextFullDelay(p) ==
    LET a == p.data.stamps[p.i]
        nextAction == p.data.stamps[p.i + 1]
        q == [p EXCEPT !.i = @ + 1, !.pc = "dispatch", !.wait = 0]
    IN  IF a # 0 /\ nextAction # 0
        THEN LET delay == nextAction - a
                 timeOffset == p.timeOffset + p.e
                 waitTime == Max(delay, 0)
             IN  [q EXCEPT !.timeOffset = Max(timeOffset - delay, 0),
                           !.wait = waitTime, !.clock = @ + waitTime]
        ELSE q

\* lines 231-249: the delay before the next action
PaceNext(p) ==
    LET a == p.data.stamps[p.i]
        nextAction == p.data.stamps[p.i + 1]
        q == [p EXCEPT !.i = @ + 1, !.pc = "dispatch", !.wait = 0]
    IN  IF a # 0 /\ nextAction # 0
        THEN LET delay == nextAction - a
                 timeOffset == p.timeOffset + p.e
                 waitTime == Max(delay - timeOffset, 0)
             IN  [q EXCEPT !.timeOffset = Max(timeOffset - delay, 0),
                           !.wait = waitTime, !.clock = @ + waitTime]
        ELSE q

\* lines 251-270: the delay after the last action, up to recordingEndTime
PaceLast(p) ==
    LET a == p.data.stamps[p.i]
        q == [p EXCEPT !.pc = "done", !.wait = 0]
    IN  IF p.data.end # 0 /\ a # 0
        THEN LET finalDelay == p.data.end - a
             IN  IF finalDelay > 0
                 THEN LET timeOffset == p.timeOffset + p.e
                          waitTime == Max(finalDelay - timeOffset, 0)
                      IN  [q EXCEPT !.timeOffset = timeOffset,
                                    !.wait = waitTime, !.clock = @ + waitTime]
                 ELSE q
        ELSE q

\* line 231: i < actions.length - 1 (i counts from 1 here)
PaceIsLast(p) == p.i = Len(p.data.stamps)

\* one action is executed
PaceDispatch ==
    /\ pacing.pc = "dispatch"
    /\ \E busy \in 0..1 : \E e \in 0..MaxExec : pacing' = PaceExecute(pacing, busy, e)
    /\ UNCHANGED <<recVars, rpVars, notPacing>>

\* the loop waits for the next action
PaceWait ==
    /\ pacing.pc = "pace" /\ ~PaceIsLast(pacing)
    /\ pacing' = PaceNext(pacing)
    /\ UNCHANGED <<recVars, rpVars, notPacing>>

\* the loop waits after the last action
PaceFinal ==
    /\ pacing.pc = "pace" /\ PaceIsLast(pacing)
    /\ pacing' = PaceLast(pacing)
    /\ UNCHANGED <<recVars, rpVars, notPacing>>

\* no replay loop is followed
PacingUnused == pacing = Pacing([stamps |-> <<1>>, end |-> 0])

\* ---------------------------------------------------- scroll debounce
\* The scroll listener of the capture script (Recorder.js lines 1153-1182),
\* followed on its own with the page's clock.  Only the vertical position is
\* followed; the horizontal one is computed and stored by the same statements.
\* -1 and "null" stand for the null of the listener's variables.
ScrollTargets == {"window", "div"}

ScrollPos == 0..MaxPos

\* lines 1154-1155: no timer, no burst begun
ScrollIdle ==
    [timer |-> [armed |-> FALSE, due |-> 0, y |-> 0],
     startY |-> -1, startTime |-> -1, target |-> "null",
     clk |-> 0, out |-> <<>>]

\* line 1159: window.scrollY || e.target.scrollTop || 0; the document has no
\* scrollTop of its own
CurrentY(target, winY, elY) ==
    IF winY # 0 THEN winY
    ELSE IF target = "window" THEN 0 ELSE elY

\* lines 1157-1168: the listener up to the timer it arms
ScrollListener(s, target, winY, elY) ==
    LET fresh == s.startTime = -1 \/ s.target # target
    IN  [s EXCEPT !.startY = IF fresh THEN CurrentY(target, winY, elY) ELSE @,
                  !.startTime = IF fresh THEN s.clk ELSE @,
                  !.target = IF fresh THEN target ELSE @,
                  !.timer = [armed |-> TRUE, due |-> s.clk + Debounce,
                             y |-> CurrentY(target, winY, elY)]]

\* lines 1169-1180: the timer's callback
ScrollTimeout(s) ==
    [s EXCEPT !.out = Append(@, [type |-> "scroll", selector |-> s.target,
                                 startScrollY |-> s.startY, scrollY |-> s.timer.y,
                                 duration |-> s.clk - s.startTime]),
              !.startY = -1, !.startTime = -1, !.target = "null",
              !.timer = [@ EXCEPT !.armed = FALSE]]

\* a timer that is due runs before anything else happens on the page
ScrollDue(s) == s.timer.armed /\ s.clk >= s.timer.due

\* the page dispatches a scroll event
ScrollEvent ==
    /\ Len(seen) < MaxScrolls
    /\ ~ScrollDue(scroll)
    /\ \E target \in ScrollTargets : \E winY \in ScrollPos : \E elY \in ScrollPos :
          /\ scroll' = ScrollListener(scroll, target, winY, elY)
          /\ seen' = Append(seen, [target |-> target, y |-> CurrentY(target, winY, elY),
                                   at |-> scroll.clk])
    /\ UNCHANGED <<recVars, rpVars, notScroll>>

\* the debounce timer runs out
ScrollFire ==
    /\ ScrollDue(scroll)
    /\ scroll' = ScrollTimeout(scroll)
    /\ UNCHANGED <<recVars, rpVars, notScroll, seen>>

\* time passes on the page
ScrollTick ==
    /\ scroll.clk < MaxClock
    /\ ~ScrollDue(scroll)
    /\ scroll' = [scroll EXCEPT !.clk = @ + 1]
    /\ UNCHANGED <<recVars, rpVars, notScroll, seen>>

\* no page is followed
ScrollUnused == scroll = ScrollIdle /\ seen = <<>>

\* ---------------------------------------------------- resize debounce
\* The resize listener of the capture script (Recorder.js lines 1184-1207),
\* followed on its own with the window and the page's clock.  log is the
\* history of the resize events (the time of each), kept for the properties.
WindowSizes == [w : 1..MaxDim, h : 1..MaxDim]

\* the 300 ms of the resize debounce, in ticks of the page's clock
ResizeDebounce == 2 * Debounce

\* lines 1185-1187: the script runs in a window of the given outer size
ResizeIdle(size) ==
    [timer |-> [armed |-> FALSE, due |-> 0],
     initial |-> size, outer |-> size, clk |-> 0, out |-> <<>>, log |-> <<>>]

\* lines 1189-1190 and 1206: the listener
ResizeListener(s) ==
    [s EXCEPT !.timer = [armed |-> TRUE, due |-> s.clk + ResizeDebounce]]

\* the timer's callback with the baseline never updated
ResizeTimeoutKeepsBaseline(s) ==
    LET fired == [s EXCEPT !.timer = [@ EXCEPT !.armed = FALSE]]
    IN  IF s.initial.w # s.outer.w \/ s.initial.h # s.outer.h
        THEN [fired EXCEPT !.out = Append(@, [type |-> "browser_resize",
                                             from |-> s.initial, to |-> s.outer])]
        ELSE fired

\* lines 1191-1205: the timer's callback
ResizeTimeout(s) ==
    LET fired == [s EXCEPT !.timer = [@ EXCEPT !.armed = FALSE]]
    IN  IF s.initial.w # s.outer.w \/ s.initial.h # s.outer.h
        THEN [fired EXCEPT !.out = Append(@, [type |-> "browser_resize",
                                             from |-> s.initial, to |-> s.outer]),
                           !.initial = s.outer]
        ELSE fired

\* a timer that is due runs before anything else happens on the page
ResizeDue(s) == s.timer.armed /\ s.clk >= s.timer.due

\* the window gets a new outer size (or the same one) and dispatches resize
ResizeEvent ==
    /\ Len(resize.log) < MaxResizes
    /\ ~ResizeDue(resize)
    /\ \E size \in WindowSizes :
          resize' = [ResizeListener([resize EXCEPT !.outer = size])
                        EXCEPT !.log = Append(@, resize.clk)]
    /\ UNCHANGED <<recVars, rpVars, notResize>>

\* the debounce timer runs out
ResizeFire ==
    /\ ResizeDue(resize)
    /\ resize' = ResizeTimeout(resize)
    /\ UNCHANGED <<recVars, rpVars, notResize>>

\* time passes on the page
ResizeTick ==
    /\ resize.clk < MaxResizeClock
    /\ ~ResizeDue(resize)
    /\ resize' = [resize EXCEPT !.clk = @ + 1]
    /\ UNCHANGED <<recVars, rpVars, notResize>>

\* no window is followed
ResizeUnused == resize = ResizeIdle([w |-> 1, h |-> 1])

\* ------------------------------------------------------ keydown filter
\* The keydown listener of the capture script (Recorder.js lines 1133-1151),
\* followed on its own: last is the event it was called with, out what it
\* passed to onUserAction.
captureKeys ==
    {"Enter", "Tab", "Escape",
     "ArrowUp", "ArrowDown", "ArrowLeft", "ArrowRight",
     "Backspace", "Delete", "Home", "End",
     "PageUp", "PageDown", "Insert", " "}

\* e.key of the events followed: the keys of the list and some that are not
KeyNames == captureKeys \cup {"a", "A", "F1", "Shift", "Control", "enter", "Space", "Spacebar"}

KeySelectors == {"#name", "input.field"}

KeyEvents ==
    [ctrlKey : BOOLEAN, altKey : BOOLEAN, metaKey : BOOLEAN, shiftKey : BOOLEAN,
     key : KeyNames, selector : KeySelectors]

KeysIdle == [last |-> [ctrlKey |-> FALSE, altKey |-> FALSE, metaKey |-> FALSE,
                       shiftKey |-> FALSE, key |-> "a", selector |-> "#name"],
             n |-> 0, out |-> <<>>]

\* the listener without line 1135
KeydownListenerAnyModifier(s, e) ==
    IF e.key \in captureKeys
    THEN [s EXCEPT !.out = Append(@, [type |-> "keydown", selector |-> e.selector,
                                      key |-> IF e.key = " " THEN "Space" ELSE e.key])]
    ELSE s

\* lines 1134-1150: the listener
KeydownListener(s, e) ==
    IF e.ctrlKey \/ e.altKey \/ e.metaKey
    THEN s
    ELSE IF e.key \in captureKeys
         THEN [s EXCEPT !.out = Append(@, [type |-> "keydown", selector |-> e.selector,
                                           key |-> IF e.key = " " THEN "Space" ELSE e.key])]
         ELSE s

\* the page dispatches a keydown event
KeydownEvent ==
    /\ keys.n < MaxKeys
    /\ \E e \in KeyEvents :
          keys' = [KeydownListener(keys, e) EXCEPT !.last = e, !.n = @ + 1]
    /\ UNCHANGED <<recVars, rpVars, notKeys>>

\* no keyboard is followed
KeysUnused == keys = KeysIdle

\* ------------------------------------------------------ click executor
\* _executeClick (part_001 lines 540-559), followed on its own: issued are
\* the calls it made on the overlay and the page, in order; checked is what
\* the page function assigned to el.checked ("unset": nothing); dispatched
\* the events it dispatched on the element.  "undefined" and Undefined stand
\* for a property the action does not have.
Undefined == -1

ClickActions ==
    [checked : {"undefined", "true", "false", "null"},
     x : {Undefined, 0, MaxCoord}, y : {Undefined, 0, MaxCoord}]

\* what action.selector matches in the page
Elements == {"none", "checkbox", "radio", "other"}

ClickRun(action, el, hints) ==
    [action |-> action, el |-> el, effects |-> hints, pc |-> "start",
     issued |-> <<>>, checked |-> "unset", dispatched |-> <<>>]

ClickIssue(s, call, pc) == [s EXCEPT !.issued = Append(@, call), !.pc = pc]

\* lines 543-558 with the coordinates looked at first
ClickBranchCoordinatesFirst(s) ==
    IF s.action.x # Undefined /\ s.action.y # Undefined
    THEN ClickIssue(s, "mouse.click", "mouse")
    ELSE IF s.action.checked # "undefined"
         THEN ClickIssue(s, "waitForSelector", "waitChecked")
         ELSE ClickIssue(s, "waitForSelector", "waitClick")

\* lines 543, 554, 556: which primitive the action gets
ClickBranch(s) ==
    IF s.action.checked # "undefined"
    THEN ClickIssue(s, "waitForSelector", "waitChecked")
    ELSE IF s.action.x # Undefined /\ s.action.y # Undefined
         THEN ClickIssue(s, "mouse.click", "mouse")
         ELSE ClickIssue(s, "waitForSelector", "waitClick")

\* lines 545-552: the function evaluated in the page, on what
\* document.querySelector(sel) returns there
ClickSetChecked(s, found) ==
    IF found \in {"checkbox", "radio"}
    THEN [s EXCEPT !.checked = s.action.checked, !.dispatched = <<"change", "click">>]
    ELSE s

\* line 541: the click hint of the overlay, which never throws
\* (ReplayerEffects.js 404-417)
ClickStart ==
    /\ click.pc = "start"
    /\ click' = IF click.effects THEN ClickIssue(click, "showClick", "show")
                ELSE ClickBranch(click)
    /\ UNCHANGED <<recVars, rpVars, notClick>>

ClickShown ==
    /\ click.pc = "show"
    /\ click' = ClickBranch(click)
    /\ UNCHANGED <<recVars, rpVars, notClick>>

\* await this.page.waitForSelector(...) resumes: it rejects when nothing
\* matches within the timeout or the page is gone
ClickWaited ==
    /\ click.pc \in {"waitChecked", "waitClick"}
    /\ \E o \in (IF click.el = "none" THEN {"error"} ELSE {"ok", "error"}) :
          click' = IF o = "error" THEN [click EXCEPT !.pc = "threw"]
                   ELSE IF click.pc = "waitChecked"
                        THEN ClickIssue(click, "evaluate", "evaluate")
                        ELSE ClickIssue(click, "click", "click")
    /\ UNCHANGED <<recVars, rpVars, notClick>>

\* await this.page.evaluate(...) resumes; the element may be gone by then
ClickEvaluated ==
    /\ click.pc = "evaluate"
    /\ \E o \in {"ok", "error"} : \E found \in {click.el, "none"} :
          click' = IF o = "error" THEN [click EXCEPT !.pc = "threw"]
                   ELSE [ClickSetChecked(click, found) EXCEPT !.pc = "done"]
    /\ UNCHANGED <<recVars, rpVars, notClick>>

\* await this.page.mouse.click(x, y) or this.page.click(selector) resumes
ClickClicked ==
    /\ click.pc \in {"mouse", "click"}
    /\ \E o \in {"ok", "error"} :
          click' = [click EXCEPT !.pc = IF o = "ok" THEN "done" ELSE "threw"]
    /\ UNCHANGED <<recVars, rpVars, notClick>>

\* no click is followed
ClickUnused ==
    click = ClickRun([checked |-> "undefined", x |-> Undefined, y |-> Undefined], "none", FALSE)

\* ------------------------------------------------- busy-indicator waiter
\* _waitForBusyIndicator (part_001 lines 488-515), followed on its own for
\* every busyTimeout.  obs is the history of what the waiter found: "closed"
\* (line 495), "busy" or "idle" (the value of isBusy, line 497).
\* the interval of 100 ms, in units of the timeout
Interval == 3

WaiterRun(timeout) ==
    [timeout |-> timeout, elapsed |-> 0, polls |-> 0, pc |-> "start", obs |-> <<>>]

\* lines 494-497 for a loop that does not look at elapsed
WaiterLoopForever(s, closed) ==
    IF closed THEN [s EXCEPT !.pc = "returned", !.obs = Append(@, "closed")]
    ELSE [s EXCEPT !.pc = "poll", !.polls = @ + 1]

\* lines 494-497 and 511-513: the head of the loop, up to the next await
WaiterLoop(s, closed) ==
    IF s.elapsed < s.timeout
    THEN IF closed THEN [s EXCEPT !.pc = "returned", !.obs = Append(@, "closed")]
         ELSE [s EXCEPT !.pc = "poll", !.polls = @ + 1]
    ELSE [s EXCEPT !.pc = "BUSY_TIMEOUT"]

\* the waiter is called
WaiterStart ==
    /\ waiter.pc = "start"
    /\ \E closed \in BOOLEAN : waiter' = WaiterLoop(waiter, closed)
    /\ UNCHANGED <<recVars, rpVars, notWaiter>>

\* await this.page.evaluate(...) resumes (lines 497-505)
WaiterPolled ==
    /\ waiter.pc = "poll"
    /\ \E isBusy \in {"busy", "idle", "error"} :
          waiter' = IF isBusy = "error" THEN [waiter EXCEPT !.pc = "threw"]
                    ELSE [waiter EXCEPT !.obs = Append(@, isBusy),
                                        !.pc = IF isBusy = "idle" THEN "returned" ELSE "delay"]
    /\ UNCHANGED <<recVars, rpVars, notWaiter>>

\* await this._delay(interval) resumes (lines 507-508)
WaiterDelayed ==
    /\ waiter.pc = "delay"
    /\ \E closed \in BOOLEAN :
          waiter' = WaiterLoop([waiter EXCEPT !.elapsed = @ + Interval], closed)
    /\ UNCHANGED <<recVars, rpVars, notWaiter>>

\* no waiter is followed
WaiterUnused == waiter = WaiterRun(0)

\* ------------------------------------------- the overlay, in isolation
\* One overlay call site of the Replayer, followed through ReplayerEffects:
\* the guard at the site, the overlay methods it calls, the driver calls
\* these await, and what gets back to the site.

\* the call sites: launchPage (119-121), reloadPage (144), the start of
\* play() (189-194), _hideReplayIndicatorSafe (482-486), the hints of the
\* executors (541, 563, 601, 634, 638) and the framenavigated handler (398-413)
OverlaySites ==
    {"launchPage", "reloadPage", "play", "hide", "showClick", "showInput",
     "showKeyPress", "showScroll", "showBrowserResize", "framenavigated"}

\* the sites that wrap their overlay calls in a try/catch of their own
OverlayGuardedSites == {"play", "hide", "framenavigated"}

\* what a site calls, in order
OverlayPlan(site) ==
    CASE site \in {"launchPage", "reloadPage"} -> <<"inject">>
      [] site = "play" -> <<"inject", "showReplayIndicator">>
      [] site = "hide" -> <<"hideReplayIndicator">>
      [] site = "framenavigated" -> <<"waitForSelector", "inject", "ifPlaying">>
      [] OTHER -> <<site>>

\* the page.evaluate calls of a method's effectFn
OverlayEvaluates(method) == IF method = "showClick" THEN 2 ELSE 1

OverlayRun(site, visualEffects, present, closed, isInjected) ==
    [site |-> site, visualEffects |-> visualEffects, effects |-> present,
     closed |-> closed, isInjected |-> isInjected, pc |-> "site", todo |-> <<>>,
     method |-> "none", nested |-> FALSE, left |-> 0, invoked |-> <<>>,
     issued |-> <<>>, failed |-> FALSE, end |-> "none"]

\* how a driver call on the page settles; the page may close while it is awaited
OverlayOutcomes(s) == IF s.closed THEN {"closed"} ELSE {"ok", "error", "closed"}

OverlaySettled(s, o) == IF o = "closed" THEN [s EXCEPT !.closed = TRUE] ELSE s

OverlayIssue(s, call, pc) == [s EXCEPT !.issued = Append(@, call), !.pc = pc]

\* a rejection gets out of the overlay method: to the try/catch of the site,
\* or to the function the site is in
OverlayRejected(s) ==
    [s EXCEPT !.pc = "done", !.todo = <<>>, !.method = "none", !.nested = FALSE,
              !.left = 0,
              !.end = IF s.site \in OverlayGuardedSites THEN "caught" ELSE "thrown"]

\* the overlay method returns to the site
OverlayReturn(s) == [s EXCEPT !.pc = "next", !.method = "none", !.nested = FALSE, !.left = 0]

\* safeExecute without its try/catch
SafeExecuteRethrows(s) == OverlayRejected([s EXCEPT !.failed = TRUE])

\* the catch block of safeExecute (ReplayerEffects.js 414-416)
SafeExecuteCatch(s) == OverlayReturn([s EXCEPT !.failed = TRUE])

\* await effectFn(): the first page.evaluate of the method
OverlayEffectFn(s) ==
    OverlayIssue([s EXCEPT !.left = OverlayEvaluates(s.method)], "evaluate", "effect")

\* inject() returns: into safeExecute, which goes on to effectFn, or to the site
InjectReturn(s) ==
    IF s.nested THEN OverlayEffectFn([s EXCEPT !.nested = FALSE]) ELSE OverlayReturn(s)

\* the catch block of inject() (ReplayerEffects.js 356-359)
InjectCatch(s) == InjectReturn([s EXCEPT !.isInjected = FALSE, !.failed = TRUE])

\* inject(), up to await this.page.addStyleTag (ReplayerEffects.js 28-33)
Inject(s) == IF s.closed THEN InjectReturn(s) ELSE OverlayIssue(s, "addStyleTag", "style")

\* safeExecute(effectFn), up to the page.evaluate of isEffectsInjected()
\* (ReplayerEffects.js 404-409, 13-17)
SafeExecute(s, method) ==
    IF s.closed THEN OverlayReturn(s)
    ELSE OverlayIssue([s EXCEPT !.method = method], "evaluate", "probe")

\* the guard of the call site: the handler of framenavigated is registered
\* only with visualEffects and tests this.effects; launchPage tests the
\* option alone; every other site tests both
OverlayGuard(s) == s.visualEffects /\ (s.site = "launchPage" \/ s.effects)

\* the site is reached
OverlaySite ==
    /\ overlay.pc = "site"
    /\ overlay' = IF OverlayGuard(overlay)
                  THEN [overlay EXCEPT !.pc = "next", !.todo = OverlayPlan(overlay.site)]
                  ELSE [overlay EXCEPT !.pc = "done", !.end = "skipped"]
    /\ UNCHANGED <<recVars, rpVars, notOverlay>>

\* the site calls its next overlay method, or goes on; after an await of the
\* site this.effects may have been reset to null, and the call is a TypeError
OverlayCall ==
    /\ overlay.pc = "next"
    /\ IF overlay.todo = <<>>
       THEN overlay' = [overlay EXCEPT !.pc = "done", !.end = "continues"]
       ELSE \E lost \in (IF overlay.issued = <<>> THEN {FALSE} ELSE BOOLEAN) :
            LET m == Head(overlay.todo)
                t == [overlay EXCEPT !.todo = Tail(@), !.effects = @ /\ ~lost]
                u == [t EXCEPT !.invoked = Append(@, m)]
            IN  CASE m = "waitForSelector" ->
                        overlay' = OverlayIssue(t, "waitForSelector", "wait")
                  [] m = "inject" ->
                        overlay' = IF t.effects THEN Inject([u EXCEPT !.method = "inject"])
                                   ELSE OverlayRejected(t)
                  [] m = "ifPlaying" ->
                        \E playing \in BOOLEAN :
                           overlay' = IF ~playing THEN t
                                      ELSE IF t.effects
                                      THEN SafeExecute([t EXCEPT !.invoked = Append(@, "showReplayIndicator")],
                                                       "showReplayIndicator")
                                      ELSE OverlayRejected(t)
                  [] OTHER ->
                        overlay' = IF t.effects THEN SafeExecute(u, m) ELSE OverlayRejected(t)
    /\ UNCHANGED <<recVars, rpVars, notOverlay>>

\* await this.page.waitForSelector('body') of the framenavigated handler resumes
OverlayWaited ==
    /\ overlay.pc = "wait"
    /\ \E o \in OverlayOutcomes(overlay) :
          LET t == OverlaySettled(overlay, o)
          IN  overlay' = IF o = "ok" THEN [t EXCEPT !.pc = "next"] ELSE OverlayRejected(t)
    /\ UNCHANGED <<recVars, rpVars, notOverlay>>

\* await this.isEffectsInjected() resumes: a rejected evaluate counts as
\* "not injected" (ReplayerEffects.js 16-22, 409-413)
OverlayProbed ==
    /\ overlay.pc = "probe"
    /\ \E o \in OverlayOutcomes(overlay) : \E defined \in BOOLEAN :
          LET t == OverlaySettled(overlay, o)
          IN  overlay' = IF o = "ok" /\ defined
                         THEN OverlayEffectFn(t)
                         ELSE Inject([t EXCEPT !.nested = TRUE, !.failed = @ \/ o # "ok"])
    /\ UNCHANGED <<recVars, rpVars, notOverlay>>

\* await this.page.addStyleTag(...) of inject() resumes
OverlayStyled ==
    /\ overlay.pc = "style"
    /\ \E o \in OverlayOutcomes(overlay) :
          LET t == OverlaySettled(overlay, o)
          IN  overlay' = IF o = "ok" THEN OverlayIssue(t, "evaluate", "script")
                         ELSE InjectCatch(t)
    /\ UNCHANGED <<recVars, rpVars, notOverlay>>

\* await this.page.evaluate(...) of inject() resumes (ReplayerEffects.js 195-359)
OverlayScripted ==
    /\ overlay.pc = "script"
    /\ \E o \in OverlayOutcomes(overlay) :
          LET t == OverlaySettled(overlay, o)
          IN  overlay' = IF o = "ok" THEN InjectReturn([t EXCEPT !.isInjected = TRUE])
                         ELSE InjectCatch(t)
    /\ UNCHANGED <<recVars, rpVars, notOverlay>>

\* a page.evaluate of effectFn resumes
OverlayEffect ==
    /\ overlay.pc = "effect"
    /\ \E o \in OverlayOutcomes(overlay) :
          LET t == OverlaySettled(overlay, o)
          IN  overlay' = IF o # "ok" THEN SafeExecuteCatch(t)
                         ELSE IF t.left > 1
                              THEN OverlayIssue([t EXCEPT !.left = @ - 1], "evaluate", "effect")
                              ELSE OverlayReturn(t)
    /\ UNCHANGED <<recVars, rpVars, notOverlay>>

\* no overlay call is followed
OverlayUnused == overlay = OverlayRun("hide", FALSE, FALSE, FALSE, FALSE)

\* The Recorder alone: every option; the Replayer is not constructed.
InitRecorder ==
    /\ RecorderInit([stream : BOOLEAN, url : BOOLEAN])
    /\ ReplayerInit({[visualEffects |-> TRUE]})
    /\ PacingUnused
    /\ ScrollUnused
    /\ ResizeUnused
    /\ KeysUnused
    /\ ClickUnused
    /\ WaiterUnused
    /\ OverlayUnused

SpecRecorder == InitRecorder /\ [][RecorderNext]_vars

\* Date.now() moves on between two steps of the instance
Tick ==
    /\ now < MaxNow
    /\ now' = now + 1
    /\ Quiet /\ NoReturn
    /\ UNCHANGED <<rpVars, pureVars, scripts, option, recGone, opened, calls, driverVars, starts, events>>

\* The Recorder under a clock that advances.
TimedNext ==
    \/ RecorderNext
    \/ Tick

SpecTimed == InitRecorder /\ [][TimedNext]_vars

\* The page of browser b loads a new document (a reload, a link): the
\* scripts registered with evaluateOnNewDocument run in it, in order.
RECURSIVE RunOnNewDocument(_, _)
RunOnNewDocument(d, n) ==
    IF n = 0 THEN d ELSE RunOnNewDocument(InjectionScript(d), n - 1)

Navigate(b) ==
    /\ up[b] /\ b <= launched
    /\ scripts' = [scripts EXCEPT
                      ![b].document = RunOnNewDocument(NewDocument, scripts[b].newDocument)]
    /\ injected' = [injected EXCEPT ![b] = scripts'[b].document.u4arec]
    /\ Quiet /\ NoReturn
    /\ UNCHANGED <<rpVars, pureVars, option, recGone, opened, calls, up, launched, handler,
                   listeners, exposed, starts, events, now>>

\* The Recorder on a page that may load new documents.
NavigatingNext ==
    \/ RecorderNext
    \/ \E b \in Browsers : Navigate(b)

SpecNavigating == InitRecorder /\ [][NavigatingNext]_vars

\* The Replayer alone: with and without visual effects.
InitReplayer ==
    /\ RecorderInit({[stream |-> TRUE, url |-> TRUE]})
    /\ ReplayerInit([visualEffects : BOOLEAN])
    /\ PacingUnused
    /\ ScrollUnused
    /\ ResizeUnused
    /\ KeysUnused
    /\ ClickUnused
    /\ WaiterUnused
    /\ OverlayUnused

SpecReplayer == InitReplayer /\ [][ReplayerNext]_vars

\* The replay loop's pacing alone, for every recording of up to MaxSteps actions.
InitPacing ==
    /\ RecorderInit({[stream |-> TRUE, url |-> TRUE]})
    /\ ReplayerInit({[visualEffects |-> TRUE]})
    /\ \E data \in PacingData : pacing = Pacing(data)
    /\ ScrollUnused
    /\ ResizeUnused
    /\ KeysUnused
    /\ ClickUnused
    /\ WaiterUnused
    /\ OverlayUnused

PacingNext ==
    \/ PaceDispatch
    \/ PaceWait
    \/ PaceFinal

SpecPacing == InitPacing /\ [][PacingNext]_vars

\* The scroll listener alone, from a page that has just been instrumented.
InitScroll ==
    /\ RecorderInit({[stream |-> TRUE, url |-> TRUE]})
    /\ ReplayerInit({[visualEffects |-> TRUE]})
    /\ PacingUnused
    /\ ScrollUnused
    /\ ResizeUnused
    /\ KeysUnused
    /\ ClickUnused
    /\ WaiterUnused
    /\ OverlayUnused

ScrollNext ==
    \/ ScrollEvent
    \/ ScrollFire
    \/ ScrollTick

SpecScroll == InitScroll /\ [][ScrollNext]_vars

\* The resize listener alone, from a script that has just run in a window of
\* any size.
InitResize ==
    /\ RecorderInit({[stream |-> TRUE, url |-> TRUE]})
    /\ ReplayerInit({[visualEffects |-> TRUE]})
    /\ PacingUnused
    /\ ScrollUnused
    /\ \E size \in WindowSizes : resize = ResizeIdle(size)
    /\ KeysUnused
    /\ ClickUnused
    /\ WaiterUnused
    /\ OverlayUnused

ResizeNext ==
    \/ ResizeEvent
    \/ ResizeFire
    \/ ResizeTick

SpecResize == InitResize /\ [][ResizeNext]_vars

\* The keydown listener alone.
InitKeys ==
    /\ RecorderInit({[stream |-> TRUE, url |-> TRUE]})
    /\ ReplayerInit({[visualEffects |-> TRUE]})
    /\ PacingUnused
    /\ ScrollUnused
    /\ ResizeUnused
    /\ keys = KeysIdle
    /\ ClickUnused
    /\ WaiterUnused
    /\ OverlayUnused

KeysNext ==
    \/ KeydownEvent

SpecKeys == InitKeys /\ [][KeysNext]_vars

\* The click executor alone, for every click action, every element the
\* selector may match, with and without the overlay.
InitClick ==
    /\ RecorderInit({[stream |-> TRUE, url |-> TRUE]})
    /\ ReplayerInit({[visualEffects |-> TRUE]})
    /\ PacingUnused
    /\ ScrollUnused
    /\ ResizeUnused
    /\ KeysUnused
    /\ \E action \in ClickActions : \E el \in Elements : \E hints \in BOOLEAN :
          click = ClickRun(action, el, hints)
    /\ WaiterUnused
    /\ OverlayUnused

ClickNext ==
    \/ ClickStart
    \/ ClickShown
    \/ ClickWaited
    \/ ClickEvaluated
    \/ ClickClicked

SpecClick == InitClick /\ [][ClickNext]_vars

\* The busy-indicator waiter alone, for every busyTimeout; the calls it
\* awaits on the page and its timer settle.
InitWaiter ==
    /\ RecorderInit({[stream |-> TRUE, url |-> TRUE]})
    /\ ReplayerInit({[visualEffects |-> TRUE]})
    /\ PacingUnused
    /\ ScrollUnused
    /\ ResizeUnused
    /\ KeysUnused
    /\ ClickUnused
    /\ \E timeout \in 0..MaxTimeout : waiter = WaiterRun(timeout)
    /\ OverlayUnused

WaiterNext ==
    \/ WaiterStart
    \/ WaiterPolled
    \/ WaiterDelayed

SpecWaiter == InitWaiter /\ [][WaiterNext]_vars /\ WF_vars(WaiterNext)

\* One overlay call site alone: every site, with and without the option, with
\* and without this.effects (launchPage creates it four lines above its
\* site), on an open or a closed page.
InitOverlay ==
    /\ RecorderInit({[stream |-> TRUE, url |-> TRUE]})
    /\ ReplayerInit({[visualEffects |-> TRUE]})
    /\ PacingUnused
    /\ ScrollUnused
    /\ ResizeUnused
    /\ KeysUnused
    /\ ClickUnused
    /\ WaiterUnused
    /\ \E site \in OverlaySites : \E visualEffects \in BOOLEAN :
       \E present \in (IF site = "launchPage" THEN {TRUE} ELSE BOOLEAN) :
       \E closed \in BOOLEAN : \E isInjected \in BOOLEAN :
          overlay = OverlayRun(site, visualEffects, present, closed, isInjected)

OverlayNext ==
    \/ OverlaySite
    \/ OverlayCall
    \/ OverlayWaited
    \/ OverlayProbed
    \/ OverlayStyled
    \/ OverlayScripted
    \/ OverlayEffect

SpecOverlay == InitOverlay /\ [][OverlayNext]_vars

\* One instance of either class: a program that constructs a Recorder or a
\* Replayer and drives it; the class that was not constructed takes no step.
RecorderUnused == RecorderInit({[stream |-> TRUE, url |-> TRUE]})

ReplayerUnused == ReplayerInit({[visualEffects |-> TRUE]})

InitEither == InitRecorder \/ InitReplayer

EitherNext ==
    \/ ReplayerUnused /\ RecorderNext
    \/ RecorderUnused /\ ReplayerNext

SpecEither == InitEither /\ [][EitherNext]_vars

\* slot i holds a close() of the Recorder that is waiting for the driver
Closing(i) == calls[i].op = "close"

\* slot i holds a close() of the Replayer, called from outside or by the
\* catch block of launchPage(), that is waiting for the driver
RpClosing(i) == rpCalls[i].pc \in {"closePages", "closePageClose", "closeBrowserClose"}

\* A driver call that a close() of the Recorder awaits settles: browser.pages()
\* and the page.close() calls resolve or reject, and the browser that
\* browser.close() shuts down disconnects, after which the call resolves.
RecCloseStep ==
    /\ ReplayerUnused
    /\ \/ \E i \in Slots : ClosePagesResumed(i)
              /\ UNCHANGED <<rpVars, pureVars, scripts, option, recGone, opened, events, now>>
       \/ \E i \in Slots : ClosePageCloseResumed(i)
              /\ UNCHANGED <<rpVars, pureVars, scripts, option, recGone, opened, events, now>>
       \/ \E i \in Slots : CloseBrowserCloseResumed(i)
              /\ UNCHANGED <<rpVars, pureVars, scripts, option, recGone, opened, events, now>>
       \/ \E b \in Browsers :
              /\ \E i \in Slots : Closing(i) /\ calls[i].pc = "browserClose" /\ calls[i].b = b
              /\ Disconnect(b) /\ recGone' = (recGone \/ Unexpected(b))
              /\ UNCHANGED <<rpVars, pureVars, scripts, option, events, now>>

\* the same for a close() of the Replayer
RpCloseStep ==
    /\ RecorderUnused
    /\ \/ \E i \in Slots : RpClosePagesResumed(i) /\ rpLocals' = RpNotes("close")
              /\ UNCHANGED <<recVars, pureVars, rpOption, rpEvents, rpPlays, rpGone>>
       \/ \E i \in Slots : RpClosePageCloseResumed(i) /\ rpLocals' = RpNotes("close")
              /\ UNCHANGED <<recVars, pureVars, rpOption, rpEvents, rpPlays, rpGone>>
       \/ \E i \in Slots : RpCloseBrowserCloseResumed(i) /\ rpLocals' = RpNotes("close")
              /\ UNCHANGED <<recVars, pureVars, rpOption, rpEvents, rpPlays, rpGone>>
       \/ \E b \in Browsers :
              /\ \E i \in Slots : rpCalls[i].pc = "closeBrowserClose" /\ rpCalls[i].b = b
              /\ RpDisconnect(b)
              /\ rpLocals' = (IF RpUnexpected(b) THEN Disturb("disconnect") ELSE rpLocals)
              /\ rpGone' = (rpGone \/ RpUnexpected(b))
              /\ UNCHANGED <<recVars, pureVars, rpOption, rpEvents, rpPlays>>

CloseStep == RecCloseStep \/ RpCloseStep

\* One instance of either class, constructed with the options the Replayer
\* defaults to (visualEffects) and a streaming Recorder that is given a url.
InitClosing ==
    /\ RecorderUnused
    /\ ReplayerUnused
    /\ PacingUnused
    /\ ScrollUnused
    /\ ResizeUnused
    /\ KeysUnused
    /\ ClickUnused
    /\ WaiterUnused
    /\ OverlayUnused

\* The instance whose close() gets its answers from the driver: the calls a
\* close() awaits are not left pending forever.
SpecClosing == InitClosing /\ [][EitherNext]_vars /\ WF_vars(CloseStep)

\* ============================================================= properties
\* What a property reads of a step: the emit()s it made (emitted'), the
\* envelope it returned (lastRet'), and the fields before and after it.

\* the emissions of es on channel ch
OnChannel(es, ch) == SelectSeq(es, LAMBDA e : e.ch = ch)

\* the items emitted one by one on channel ch, in order
Items(es, ch) ==
    LET sel == SelectSeq(es, LAMBDA e : e.ch = ch /\ e.kind = "item")
    IN  [k \in 1..Len(sel) |-> sel[k].items[1]]

\* the arrays emitted on channel ch, in order
Arrays(es, ch) ==
    LET sel == SelectSeq(es, LAMBDA e : e.ch = ch /\ e.kind = "array")
    IN  [k \in 1..Len(sel) |-> sel[k].items]

\* the items a step appended to a buffer
Appended(old, new) ==
    IF Len(new) > Len(old) THEN SubSeq(new, Len(old) + 1, Len(new)) ELSE <<>>

\* an initial browser_resize: from and to are the same size
InitialResize(a) == a.type = "browser_resize" /\ a.fromSize = a.toSize

fields == <<status, browser, page, recordedActions, recordedErrors,
            recordingStartTime, recordingEndTime, isScriptInjected>>

\* the step runs the disconnected handler of a browser
HandlerRuns == \E b \in Browsers : up[b] /\ ~up'[b] /\ handler[b]

\* the step runs _finalize(): a stopRecording() that succeeds, or the
\* disconnected handler during RECORDING
FinalizeRuns ==
    \/ lastRet'.op = "stopRecording" /\ lastRet'.RETCD = "S"
    \/ HandlerRuns /\ status = "RECORDING"

\* a close() call is suspended
ClosePending(cs) == \E i \in Slots : cs[i].op = "close"

\* what a buffered Recorder hands over when a recording is finalized at time
\* end: each non-empty buffer as one array
Handover(end) ==
    IF option.stream THEN <<>>
    ELSE (IF recordedActions # <<>>
          THEN <<Emission("action", "array", recordedActions, "RECORDING", end)>>
          ELSE <<>>)
         \o (IF recordedErrors # <<>>
             THEN <<Emission("console-error", "array", recordedErrors, "RECORDING", end)>>
             ELSE <<>>)

\* C1 - Recorder: a launchPage() that was pending in LAUNCHING when close() was
\* invoked resolves with RETCD 'E' and STCOD 'ABORTED_BY_USER', and does not
\* bring the Recorder to READY.
C1_LaunchAborted ==
    (lastRet.op = "launchPage" /\ lastRet.cancelled)
        => /\ lastRet.RETCD = "E"
           /\ lastRet.STCOD = "ABORTED_BY_USER"
           /\ status # "READY"

\* C2 - Replayer: a launchPage() that was pending in LAUNCHING when close() was
\* invoked resolves with RETCD 'E' and STCOD 'BROWSER_CLOSED', and does not
\* bring the Replayer to LAUNCHED.
C2_LaunchClosed ==
    (rpLastRet.op = "launchPage" /\ rpLastRet.cancelled)
        => /\ rpLastRet.RETCD = "E"
           /\ rpLastRet.STCOD = "BROWSER_CLOSED"
           /\ rpStatus # "LAUNCHED"

\* C3 - The first action of recordedActions, the first action emitted one by
\* one and the first action of an emitted array is the initial browser_resize
\* with from = to: no action of the page callback precedes it.
C3_InitialResizeFirst ==
    /\ recordedActions # <<>> => InitialResize(recordedActions[1])
    /\ \A k \in 1..Len(emitted) :
          emitted[k].ch = "action" /\ emitted[k].kind = "array"
              => InitialResize(emitted[k].items[1])

\* C4 - Every step that appends to recordedActions or recordedErrors starts
\* in RECORDING, and every item emitted one by one on 'action' or
\* 'console-error' is emitted while status = RECORDING.
C4_OnlyWhileRecording ==
    [][/\ (Len(recordedActions') > Len(recordedActions)
              \/ Len(recordedErrors') > Len(recordedErrors))
          => status = "RECORDING"
       /\ \A k \in 1..Len(emitted') :
             emitted'[k].kind = "item" => emitted'[k].st = "RECORDING"]_vars

\* C5 - While a startRecording() call that began a recording (resolved or
\* still awaiting) has not been followed by stopRecording() (or by a close()
\* or a disconnect, which end the session), the state check of startRecording()
\* answers ALREADY_RECORDING; and the call that gets this answer changes
\* neither the status nor the buffers nor recordingStartTime.
C5_SecondStartRefused ==
    /\ [](opened.open => StartRecordingCheck(Self) = "ALREADY_RECORDING")
    /\ [][(lastRet'.op = "startRecording" /\ lastRet'.STCOD = "ALREADY_RECORDING")
             => UNCHANGED <<status, recordedActions, recordedErrors,
                            recordingStartTime>>]_vars

\* C6 as written - stream=true: every captured item is emitted at capture, and
\* no array is; stream=false: no item is emitted one by one, and each step that
\* runs _finalize() emits the whole actions array and the whole errors array,
\* one emission each.
C6_ArraysAlways ==
    [][IF option.stream
       THEN /\ Items(emitted', "action") = Appended(recordedActions, recordedActions')
            /\ Items(emitted', "console-error") = Appended(recordedErrors, recordedErrors')
            /\ Arrays(emitted', "action") = <<>>
            /\ Arrays(emitted', "console-error") = <<>>
       ELSE /\ Items(emitted', "action") = <<>>
            /\ Items(emitted', "console-error") = <<>>
            /\ Arrays(emitted', "action")
                   = IF FinalizeRuns THEN <<recordedActions>> ELSE <<>>
            /\ Arrays(emitted', "console-error")
                   = IF FinalizeRuns THEN <<recordedErrors>> ELSE <<>>]_vars

\* C6 - stream=true: every captured item is emitted at capture, and no array
\* is; stream=false: no item is emitted one by one, and a step that runs
\* _finalize() emits each NON-EMPTY buffer as one array (an empty buffer is
\* not emitted); _finalize() ends the recording, so it runs at most once in it.
C6_Delivery ==
    [][IF option.stream
       THEN /\ Items(emitted', "action") = Appended(recordedActions, recordedActions')
            /\ Items(emitted', "console-error") = Appended(recordedErrors, recordedErrors')
            /\ Arrays(emitted', "action") = <<>>
            /\ Arrays(emitted', "console-error") = <<>>
       ELSE /\ Items(emitted', "action") = <<>>
            /\ Items(emitted', "console-error") = <<>>
            /\ Arrays(emitted', "action")
                   = IF FinalizeRuns /\ recordedActions # <<>>
                     THEN <<recordedActions>> ELSE <<>>
            /\ Arrays(emitted', "console-error")
                   = IF FinalizeRuns /\ recordedErrors # <<>>
                     THEN <<recordedErrors>> ELSE <<>>
            /\ FinalizeRuns => status = "RECORDING" /\ status' # "RECORDING"]_vars

\* a buffered recording of two actions was handed over as one array
C6_Witness ==
    /\ ~option.stream
    /\ \E k \in 1..Len(emitted) :
          /\ emitted[k].ch = "action" /\ emitted[k].kind = "array"
          /\ Len(emitted[k].items) = 2

\* C7 - When the disconnected handler runs in RECORDING it stamps
\* recordingEndTime, hands over the buffers (stream=false), emits 'stop', then
\* 'close', all before the reset, and leaves IDLE with empty buffers; when it
\* runs in CLOSING it emits nothing and changes no field.
C7_DisconnectWhileRecording ==
    [][HandlerRuns =>
          /\ status = "RECORDING" =>
                /\ emitted' = Handover(now)
                                \o <<Emission("stop", "signal", <<>>, "RECORDING", now),
                                     Emission("close", "signal", <<>>, "RECORDING", now)>>
                /\ status' = "IDLE"
                /\ recordedActions' = <<>> /\ recordedErrors' = <<>>
          /\ status = "CLOSING" => emitted' = <<>> /\ UNCHANGED fields]_vars

\* the handler handed over a buffered recording of two actions, then 'stop', then 'close'
C7_Witness ==
    /\ ~option.stream /\ status = "IDLE" /\ Len(emitted) = 3
    /\ emitted[1].kind = "array" /\ Len(emitted[1].items) = 2
    /\ emitted[2].ch = "stop" /\ emitted[3].ch = "close"

RpCloseResolves == \E i \in Slots : rpCalls[i].op = "close" /\ rpCalls'[i] = Free

\* the step runs the Replayer's disconnected handler
RpHandlerRuns == \E b \in Browsers : rpUp[b] /\ ~rpUp'[b] /\ rpHandler[b]

C10_StopRecording ==
    [][lastRet'.op = "stopRecording" =>
          IF status # "RECORDING"
          THEN /\ lastRet'.RETCD = "E" /\ lastRet'.STCOD = "NOT_RECORDING"
               /\ emitted' = <<>> /\ UNCHANGED fields
          ELSE /\ lastRet'.RETCD = "S"
               /\ recordingEndTime' = now
               /\ emitted' = Handover(now)
                               \o <<Emission("stop", "signal", <<>>, "RECORDING", now)>>
               /\ status' = "READY"
               /\ UNCHANGED <<browser, page, recordedActions, recordedErrors,
                              recordingStartTime, isScriptInjected>>]_vars

\* a recording of two actions was stopped
C10_Witness ==
    /\ lastRet.op = "stopRecording" /\ lastRet.RETCD = "S"
    /\ status = "READY" /\ Len(recordedActions) = 2
    /\ emitted # <<>> /\ emitted[Len(emitted)].ch = "stop"

\* C11 - launchPage() outside IDLE returns E/ALREADY_LAUNCHED, launches nothing
\* and changes no field, so that an instance has at most one launch in progress
\* or one live browser: while a launch is pending or a browser it launched is
\* connected, the state check of launchPage() refuses.
C11_OneLaunch ==
    /\ ((\E i \in Slots : calls[i].op = "launchPage") \/ (\E b \in Browsers : up[b]))
           => status # "IDLE"
    /\ ((\E i \in Slots : rpCalls[i].op = "launchPage") \/ (\E b \in Browsers : rpUp[b]))
           => rpStatus # "IDLE"

\* a play() call begins in this step: it passes its checks
PlayBegins ==
    \/ \E i \in Slots : rpCalls[i] = Free /\ rpCalls'[i].op = "play"
    \/ rpLastRet'.op = "play" /\ rpLastRet'.i > 0 /\ rpCalls' = rpCalls

\* a play() call returns at its checks in this step
PlayRefusedNow == rpLastRet'.op = "play" /\ rpLastRet'.i = 0

rpFields == <<rpStatus, rpBrowser, rpPage, effects, consoleErrors>>

\* C12 as written - play(recordData) outside LAUNCHED returns E/NO_PAGE_FOUND,
\* dispatches nothing and leaves the status; with recordData.actions not an
\* array it returns E/INVALID_DATA without entering PLAYING.
C12_StateCheckFirst ==
    [][/\ PlayBegins => rpStatus = "LAUNCHED"
       /\ PlayRefusedNow =>
            /\ rpLastRet'.RETCD = "E"
            /\ rpEmitted' = <<>> /\ UNCHANGED <<rpFields, rpCalls>>
            /\ rpStatus # "LAUNCHED" => rpLastRet'.STCOD = "NO_PAGE_FOUND"
            /\ ~rpLastRet'.array => rpLastRet'.STCOD = "INVALID_DATA"]_vars

\* C12 - play(recordData) checks the data first: without an actions array it
\* returns E/INVALID_DATA in every state; with an array outside LAUNCHED it
\* returns E/NO_PAGE_FOUND; with an empty array in LAUNCHED E/INVALID_DATA.
\* A refused play() dispatches nothing and changes no field, and only a
\* play() in LAUNCHED begins.
C12_PlayChecks ==
    [][/\ PlayBegins => rpStatus = "LAUNCHED"
       /\ PlayRefusedNow =>
            /\ rpLastRet'.RETCD = "E"
            /\ rpEmitted' = <<>> /\ UNCHANGED <<rpFields, rpCalls>>
            /\ rpLastRet'.STCOD =
                 IF ~rpLastRet'.array THEN "INVALID_DATA"
                 ELSE IF rpStatus # "LAUNCHED" THEN "NO_PAGE_FOUND"
                 ELSE "INVALID_DATA"
            /\ (rpLastRet'.array /\ rpStatus = "LAUNCHED") => rpLastRet'.n = 0]_vars

\* play() without an actions array was refused while another play() runs
C12_Witness ==
    /\ rpLastRet.op = "play" /\ rpLastRet.i = 0 /\ ~rpLastRet.array
    /\ rpLastRet.STCOD = "INVALID_DATA" /\ rpStatus = "PLAYING"

\* C13 - play() emits 'finish' once, sets LAUNCHED and returns 'S' with
\* RDATA.consoleErrors when every action was dispatched and no stop(), close()
\* or disconnect occurred; 'finish' is emitted on no other path.
C13_FinishOnlyWhenComplete ==
    [][LET finish == Len(OnChannel(rpEmitted', "finish"))
       IN  /\ finish <= 1
           /\ finish = 1 <=> (rpLastRet'.op = "play" /\ rpLastRet'.RETCD = "S")
           /\ finish = 1 =>
                /\ rpStatus' = "LAUNCHED"
                /\ rpLastRet'.RDATA /\ rpLastRet'.consoleErrors = consoleErrors'
                /\ rpLastRet'.disturbed \cap {"stop", "close", "disconnect"} = {}]_vars

\* the play() suspended in slot i dispatches an action in this step
Dispatches(i) ==
    /\ rpCalls[i].op = "play" /\ rpCalls[i].pc # "exec"
    /\ rpCalls'[i].op = "play" /\ rpCalls'[i].pc = "exec"

\* the play() suspended in slot i returns in this step
PlayReturns(i) == rpCalls[i].op = "play" /\ rpCalls'[i] = Free

\* C14 - stop() outside PLAYING returns E/NOT_PLAYING and changes nothing; in
\* PLAYING it sets LAUNCHED and returns 'S', and from then on the running
\* play() dispatches no action and resolves with E/REPLAY_STOPPED, whatever is
\* called afterwards.
C14_StopEndsPlay ==
    [][/\ rpLastRet'.op = "stop" =>
            IF rpStatus # "PLAYING"
            THEN /\ rpLastRet'.RETCD = "E" /\ rpLastRet'.STCOD = "NOT_PLAYING"
                 /\ rpEmitted' = <<>> /\ UNCHANGED <<rpFields, rpCalls>>
            ELSE /\ rpLastRet'.RETCD = "S" /\ rpStatus' = "LAUNCHED"
       /\ \A i \in Slots :
            (rpCalls[i].op = "play" /\ "stop" \in rpLocals[i].disturbed) =>
                /\ ~Dispatches(i)
                /\ PlayReturns(i) =>
                     rpLastRet'.RETCD = "E" /\ rpLastRet'.STCOD = "REPLAY_STOPPED"]_vars

\* C15 - close() called from outside while play() runs: play() resolves with
\* E/BROWSER_CLOSED and RDATA.consoleErrors, dispatches no action after the
\* close, and the Replayer ends in IDLE.
C15_CloseEndsPlay ==
    [][\A i \in Slots :
          (rpCalls[i].op = "play" /\ "close" \in rpLocals[i].disturbed) =>
              /\ ~Dispatches(i)
              /\ PlayReturns(i) =>
                   /\ rpLastRet'.RETCD = "E" /\ rpLastRet'.STCOD = "BROWSER_CLOSED"
                   /\ rpLastRet'.RDATA
                   /\ (\A j \in Slots : rpCalls'[j] = Free) => rpStatus' = "IDLE"]_vars

\* play() in slot i returns E/BUSY_TIMEOUT with RDATA.consoleErrors, its loop
\* at the index it had
BusyTimeoutReturned(i) ==
    /\ PlayReturns(i)
    /\ rpLastRet'.RETCD = "E" /\ rpLastRet'.STCOD = "BUSY_TIMEOUT"
    /\ rpLastRet'.RDATA /\ rpLastRet'.consoleErrors = consoleErrors'
    /\ rpLastRet'.i = rpLocals[i].i

C17_InOrder ==
    [][\A i \in Slots :
          (rpCalls[i].op = "play" /\ rpCalls'[i].op = "play") =>
              /\ Dispatches(i) =>
                   /\ rpCalls[i].pc = "busy"
                   /\ rpLocals'[i].i = rpLocals[i].i
                   /\ Items(rpEmitted', "action")
                        = <<[type |-> rpLocals'[i].type, index |-> rpLocals[i].i]>>
              /\ rpLocals'[i].i \in {rpLocals[i].i, rpLocals[i].i + 1}
              /\ rpLocals'[i].i = rpLocals[i].i + 1 =>
                   /\ rpCalls[i].pc \in {"exec", "delay", "busy"}
                   /\ rpCalls'[i].pc # "exec"
              /\ rpCalls[i].pc = "exec" =>
                   \/ rpCalls'[i] = rpCalls[i] /\ rpLocals'[i].i = rpLocals[i].i
                   \/ rpCalls'[i].pc = "delay" /\ rpLocals'[i].i = rpLocals[i].i
                   \/ rpCalls'[i].pc = "busy" /\ rpLocals'[i].i = rpLocals[i].i + 1
                   \/ rpCalls'[i].pc \in {"hideStop", "hideFinish", "hideCatch"}
              /\ (rpCalls[i].pc = "delay" /\ rpCalls'[i] # rpCalls[i]) =>
                   rpLocals'[i].i = rpLocals[i].i + 1]_vars

\* the second action of a play() is dispatched
C17_Witness ==
    \E i \in Slots :
        /\ rpCalls[i].op = "play" /\ rpCalls[i].pc = "exec" /\ rpLocals[i].i = 2
        /\ Items(rpEmitted, "action") = <<[type |-> rpLocals[i].type, index |-> 2]>>

\* the executor awaited by the play() in slot i resumes in this step, and its
\* driver call can only have failed
ExecutorFails(i) ==
    /\ rpCalls[i].op = "play" /\ rpCalls[i].pc = "exec"
    /\ RpPageOutcome(rpCalls[i].b) = {"closed"}
    /\ rpCalls'[i] # rpCalls[i]

\* C18 - an error of the busy waiter or of an executor (click, input, change,
\* keydown, scroll, browser_resize) ends the loop with RETCD 'E': BUSY_TIMEOUT
\* stays, target closed or a missing page gives BROWSER_CLOSED with status
\* IDLE, anything else ACTION_FAILED naming the failing step with status
\* LAUNCHED; RDATA.consoleErrors is returned in every case.
C18_ErrorClassification ==
    [][\A i \in Slots :
          /\ ExecutorFails(i) =>
               \/ rpCalls'[i].pc = "hideCatch"
               \/ PlayReturns(i) /\ rpLastRet'.RETCD = "E"
          /\ (PlayReturns(i) /\ rpCalls[i].pc \in {"busy", "busyDelay", "exec", "hideCatch"}
                 /\ rpLastRet'.RETCD = "E") =>
               /\ rpLastRet'.RDATA /\ rpLastRet'.consoleErrors = consoleErrors'
               /\ rpLastRet'.STCOD \in {"BUSY_TIMEOUT", "BROWSER_CLOSED", "ACTION_FAILED"}
               /\ rpLastRet'.STCOD = "ACTION_FAILED" => rpLastRet'.step = rpLastRet'.i
               /\ rpLastRet'.disturbed = {} =>
                    rpStatus' = IF rpLastRet'.STCOD = "BROWSER_CLOSED"
                                THEN "IDLE" ELSE "LAUNCHED"]_vars

\* a timer, not a driver call
Timers == {"delay", "busyDelay"}

\* C19 - after an unexpected disconnect, until a fresh launchPage(), every
\* operation of the Recorder and of the Replayer (close() apart, which
\* returns no envelope) is rejected by its state check: the status the check
\* reads stays IDLE, every envelope returned has RETCD 'E', also that of a
\* call that was in flight, and no call starts a driver call on the dead
\* browser or page.
C19_AfterDisconnect ==
    [][/\ recGone' => status' = "IDLE"
       /\ rpGone' => rpStatus' = "IDLE"
       /\ (recGone /\ recGone' /\ lastRet'.op \notin {"none", "close", "closeIgnored"})
              => lastRet'.RETCD = "E"
       /\ (rpGone /\ rpGone' /\ rpLastRet'.op \notin {"none", "close", "closeIgnored"})
              => rpLastRet'.RETCD = "E"
       /\ (recGone /\ recGone') =>
              \A i \in Slots : (calls'[i] # Free /\ calls'[i].pc # calls[i].pc)
                                   => calls'[i].b # NULL /\ up[calls'[i].b]
       /\ (rpGone /\ rpGone') =>
              \A i \in Slots : (rpCalls'[i] # Free /\ rpCalls'[i].pc # rpCalls[i].pc)
                                   => \/ rpCalls'[i].pc \in Timers
                                      \/ rpCalls'[i].b # NULL /\ rpUp[rpCalls'[i].b]]_vars

\* the status codes of the Recorder (Recorder.js lines 581-600)
RecorderStatusCode ==
    {"SUCCESS", "NO_URL_FOUND", "NO_PAGE_FOUND", "ALREADY_LAUNCHED", "ALREADY_RECORDING",
     "NOT_RECORDING", "LAUNCH_FAILED", "RECORDING_START_FAILED", "ABORTED_BY_USER",
     "BROWSER_CONSOLE_ERROR", "REQUEST_ERROR"}

\* the status codes of the Replayer (part_001 lines 8-24)
ReplayerStatusCode ==
    {"BROWSER_CLOSED", "REPLAY_STOPPED", "LAUNCH_FAILED", "ACTION_FAILED", "BUSY_TIMEOUT",
     "NO_PAGE_FOUND", "NO_URL_FOUND", "INVALID_DATA", "ALREADY_LAUNCHED", "NOT_PLAYING",
     "REQUEST_ERROR", "BROWSER_CONSOLE_ERROR"}

\* ret is a result envelope: RETCD 'S' without STCOD, or RETCD 'E' with a
\* STCOD of codes
Envelope(ret, codes) ==
    /\ ret.RETCD \in {"S", "E"}
    /\ ret.RETCD = "S" => ret.STCOD = "none"
    /\ ret.RETCD = "E" => ret.STCOD \in codes

\* the two ways close() resolves
Closes == {"close", "closeIgnored"}

HasDuration == recordingStartTime # NULL /\ recordingEndTime # NULL

DurationMs == recordingEndTime - recordingStartTime

\* C21 - Recorder: whenever recordingStartTime and recordingEndTime are both
\* set, recordingStartTime <= recordingEndTime, so the durationMs that
\* getMetadata() returns is never negative, in the second and later recordings
\* of a session too.
C21_StartBeforeEnd ==
    HasDuration => recordingStartTime <= recordingEndTime /\ DurationMs >= 0

\* s is in the order of its timestamps
Sorted(s) == \A i, j \in 1..Len(s) : i < j => s[i].timestamp <= s[j].timestamp

\* C22 - Recorder: recordedActions is always sorted by timestamp, and in
\* stream mode the records a step appends are emitted one by one on 'action'
\* in the order in which they were delivered and appended.
C22_SortedInOrder ==
    [][/\ Sorted(recordedActions')
       /\ option.stream =>
              Items(emitted', "action") = Appended(recordedActions, recordedActions')]_vars

\* stream mode: a second action, delivered after the clock moved on, has just
\* been emitted
C22_Witness ==
    /\ option.stream
    /\ Len(recordedActions) = 2
    /\ recordedActions[1].timestamp < recordedActions[2].timestamp
    /\ Items(emitted, "action") = <<recordedActions[2]>>

\* the step ends a startRecording() call in its catch block
StartFails ==
    /\ lastRet'.op = "startRecording"
    /\ lastRet'.STCOD \in {"RECORDING_START_FAILED", "ABORTED_BY_USER"}

\* this.page refers to a page of a connected browser
LivePage(p, u) == p # NULL /\ u[p]

\* C23 - Recorder.startRecording() that fails: with RECORDING_START_FAILED the
\* status is READY and the page is live; a call whose browser is gone or that
\* close() overtook (status CLOSING) returns ABORTED_BY_USER, and after
\* ABORTED_BY_USER the status is not READY unless the page is live.
C23_StartFailure ==
    [][StartFails =>
          /\ lastRet'.RETCD = "E"
          /\ lastRet'.STCOD = "RECORDING_START_FAILED" =>
                 status' = "READY" /\ LivePage(page', up')
          /\ (status = "CLOSING"
                 \/ \E i \in Slots : /\ calls[i].op = "startRecording" /\ calls'[i] = Free
                                     /\ ~up[calls[i].b])
                 => lastRet'.STCOD = "ABORTED_BY_USER"
          /\ lastRet'.STCOD = "ABORTED_BY_USER" =>
                 (status' = "READY" => LivePage(page', up'))]_vars

\* the states of the Recorder with a page to work on
Ready == {"READY", "RECORDING"}

\* C24 - Recorder: whenever the status is READY or RECORDING, browser and
\* page are set; and no step takes the status from IDLE straight to READY or
\* RECORDING: from IDLE only a new launchPage() call, through LAUNCHING, leads
\* there.
C24_ReadyHasBrowser ==
    [][/\ status' \in Ready => browser' # NULL /\ page' # NULL
       /\ status = "IDLE" => status' \notin Ready]_vars

\* the states of the Replayer with a page to work on
Launched == {"LAUNCHED", "PLAYING"}

\* C25 - Replayer: whenever the status is LAUNCHED or PLAYING, browser and
\* page are set; whenever it is IDLE, browser, page and effects are null; and
\* a play() that returns after the instance was reset (browser null) does not
\* put the status back to LAUNCHED.
C25_LaunchedHasBrowser ==
    [][/\ rpStatus' \in Launched => rpBrowser' # NULL /\ rpPage' # NULL
       /\ rpStatus' = "IDLE" => rpBrowser' = NULL /\ rpPage' = NULL /\ effects' = NULL
       /\ \A i \in Slots :
              (PlayReturns(i) /\ rpBrowser = NULL) => rpStatus' # "LAUNCHED"]_vars

\* the play() calls that have passed their checks and have not resolved
Playing == {i \in Slots : rpCalls[i].op = "play"}

\* C26 - Replayer: at most one play() call is inside the replay loop at any
\* time: no play() call passes its checks and starts dispatching while an
\* earlier play() call has not resolved.
C26_OnePlay == Cardinality(Playing) <= 1

\* a launchPage() that was pending when close() was called resolves in this
\* step (cs, cs2: the calls before and after it), no close() is pending any
\* more, and the browser it launched is left running (u2) or attached to the
\* instance (br2)
LeavesBrowser(cs, cs2, u2, br2) ==
    \E i \in Slots :
        /\ cs[i].op = "launchPage" /\ cs[i].cancelled /\ cs2[i] = Free
        /\ \A j \in Slots : cs2[j].op # "close"
        /\ cs[i].b # NULL
        /\ u2[cs[i].b] \/ br2 = cs[i].b

\* C27 - Recorder and Replayer: once close() has resolved, a launchPage() that
\* was pending when close() was called never leaves the browser it launched
\* attached to the instance or running, so that after close() no live browser
\* appears without a new launchPage() call.
C27_CloseCancelsLaunch ==
    [][/\ ~LeavesBrowser(calls, calls', up', browser')
       /\ ~LeavesBrowser(rpCalls, rpCalls', rpUp', rpBrowser')]_vars

\* the gap the loop paces against after the action at hand is known: both
\* timestamps are set, or (last action) the timestamp and recordingEndTime
HasGap(p) ==
    /\ p.data.stamps[p.i] # 0
    /\ IF PaceIsLast(p) THEN p.data.end # 0 ELSE p.data.stamps[p.i + 1] # 0

\* the gap to the next action or, for the last action, to recordingEndTime
Gap(p) ==
    (IF PaceIsLast(p) THEN p.data.end ELSE p.data.stamps[p.i + 1]) - p.data.stamps[p.i]

\* C28 - replay loop timing: timeOffset starts at 0; after an action executed
\* in e with a gap d to the next action (for the last action: to
\* recordingEndTime) the loop sleeps exactly max(d - (timeOffset + e), 0), and
\* after an action that is not the last it carries
\* timeOffset' = max(timeOffset + e - d, 0); timeOffset is never negative.
C28_Pacing ==
    [][/\ pacing'.timeOffset >= 0
       /\ (pacing.pc = "pace" /\ HasGap(pacing)) =>
              /\ pacing'.wait = Max(Gap(pacing) - (pacing.timeOffset + pacing.e), 0)
              /\ pacing'.clock = pacing.clock + pacing'.wait
              /\ ~PaceIsLast(pacing) =>
                     pacing'.timeOffset
                         = Max(pacing.timeOffset + pacing.e - Gap(pacing), 0)]_vars

\* the loop has just slept a wait that a carried overrun and the execution
\* time had shortened
C28_Witness ==
    /\ pacing.pc = "dispatch" /\ pacing.i = 3
    /\ pacing.data.stamps = <<1, 1, 3>>
    /\ pacing.e = 0 /\ pacing.wait = 1 /\ pacing.timeOffset = 0

\* every action of the recording has a timestamp
AllStamped(p) == \A k \in 1..Len(p.data.stamps) : p.data.stamps[k] # 0

\* the recorded time between the first action and the action at hand
RecordedGap(p) == p.data.stamps[p.i] - p.data.stamps[1]

\* C29 - replay pacing never runs ahead of the recording: when busy waits take
\* no time and all actions have timestamps, at the dispatch of an action the
\* replay time since the first dispatch is the recorded gap plus the carried
\* timeOffset, hence at least the recorded gap.
C29_NeverAhead ==
    (pacing.pc = "dispatch" /\ ~pacing.busied /\ AllStamped(pacing)) =>
        /\ pacing.clock = RecordedGap(pacing) + pacing.timeOffset
        /\ pacing.clock >= RecordedGap(pacing)

\* the third action is dispatched late by a carried overrun
C29_Witness ==
    /\ pacing.pc = "dispatch" /\ pacing.i = 3
    /\ ~pacing.busied /\ AllStamped(pacing)
    /\ pacing.timeOffset > 0
    /\ pacing.clock > RecordedGap(pacing)

\* The bursts of the scroll events dispatched so far: maximal runs of events
\* on one target less than the debounce time apart, each with the first and
\* the last position seen and with what ended it ("switch": an event on
\* another target came within the debounce time; "quiet" otherwise).
RECURSIVE Bursts(_)
Bursts(s) ==
    IF s = <<>> THEN <<>>
    ELSE LET before == Bursts(SubSeq(s, 1, Len(s) - 1))
             e == s[Len(s)]
             n == Len(before)
         IN  IF n > 0 /\ e.at - before[n].lastAt < Debounce
             THEN IF before[n].selector = e.target
                  THEN [before EXCEPT ![n].scrollY = e.y, ![n].lastAt = e.at]
                  ELSE Append([before EXCEPT ![n].ended = "switch"],
                              [selector |-> e.target, startScrollY |-> e.y, scrollY |-> e.y,
                               lastAt |-> e.at, ended |-> "quiet"])
             ELSE Append(before,
                         [selector |-> e.target, startScrollY |-> e.y, scrollY |-> e.y,
                          lastAt |-> e.at, ended |-> "quiet"])

\* a scroll action, or a burst, as far as the two are compared
ScrollOf(a) == [selector |-> a.selector, startScrollY |-> a.startScrollY, scrollY |-> a.scrollY]

ScrollsOf(s) == [k \in 1..Len(s) |-> ScrollOf(s[k])]

QuietBurst(b) == b.ended = "quiet"

\* no emission is pending on the page
ScrollSettled == ~scroll.timer.armed

\* Aside of C30: once nothing is pending, the bursts that were followed by the
\* debounce time without a scroll event have been reported, each exactly once
\* and in order, with the first and the last position seen.
QuietBurstsReported ==
    ScrollSettled => ScrollsOf(scroll.out) = ScrollsOf(SelectSeq(Bursts(seen), QuietBurst))

\* C30: once nothing is pending, every burst of scroll events on one target
\* has been reported by exactly one scroll action, with the first and the
\* last position seen in it, also a burst that ended because the scrolling
\* switched to another target within the debounce time.
C30_EveryBurstReported ==
    ScrollSettled => ScrollsOf(scroll.out) = ScrollsOf(Bursts(seen))

\* The bursts of resize events so far: maximal runs of events less than the
\* debounce time apart (the number of them).
RECURSIVE ResizeBursts(_)
ResizeBursts(log) ==
    IF log = <<>> THEN 0
    ELSE IF Len(log) = 1 THEN 1
    ELSE ResizeBursts(SubSeq(log, 1, Len(log) - 1))
         + (IF log[Len(log)] - log[Len(log) - 1] < ResizeDebounce THEN 0 ELSE 1)

\* the debounce timer runs out in this step
ResizeSettles == resize.timer.armed /\ ~resize'.timer.armed

\* C31: a burst of resize events followed by the debounce time of quiet
\* yields at most one browser_resize, and one only if the outer size differs
\* from the baseline; it goes from the baseline to the size at that moment,
\* and the baseline becomes that size, so that each browser_resize starts
\* from the size the one before it ended with.
C31_ResizeDebounce ==
    [][/\ Len(resize'.out) <= ResizeBursts(resize'.log)
       /\ \A k \in 2..Len(resize'.out) : resize'.out[k].from = resize'.out[k - 1].to
       /\ ResizeSettles =>
            /\ resize.outer = resize.initial => resize'.out = resize.out
            /\ resize.outer # resize.initial =>
                  resize'.out = Append(resize.out, [type |-> "browser_resize",
                                                    from |-> resize.initial,
                                                    to |-> resize.outer])
            /\ resize'.initial = resize.outer
       /\ ~ResizeSettles => resize'.out = resize.out /\ resize'.initial = resize.initial]_vars

\* two bursts, each reported, the second from where the first ended
C31_Witness ==
    /\ Len(resize.out) = 2
    /\ resize.out[2].from = resize.out[1].to
    /\ resize.out[2].to # resize.out[1].to
    /\ ResizeBursts(resize.log) = 2
    /\ Len(resize.log) = 3

\* the keys the keydown filter is said to let through
ListedKeys ==
    {"Enter", "Tab", "Escape", "ArrowUp", "ArrowDown", "ArrowLeft", "ArrowRight",
     "Backspace", "Delete", "Home", "End", "PageUp", "PageDown", "Insert", " "}

\* C39: a keydown event produces an action if and only if none of Ctrl, Alt
\* and Meta is held and the key is one of the listed keys; the action carries
\* the event's key, with " " written as "Space".
C39_KeydownFilter ==
    [][LET e == keys'.last
           passes == ~e.ctrlKey /\ ~e.altKey /\ ~e.metaKey /\ e.key \in ListedKeys
       IN  /\ passes <=> Len(keys'.out) = Len(keys.out) + 1
           /\ ~passes <=> keys'.out = keys.out
           /\ passes =>
                /\ SubSeq(keys'.out, 1, Len(keys.out)) = keys.out
                /\ keys'.out[Len(keys'.out)].type = "keydown"
                /\ keys'.out[Len(keys'.out)].key = (IF e.key = " " THEN "Space" ELSE e.key)]_vars

\* a Tab and then a space were sent, as Tab and as Space
C39_Witness ==
    /\ Len(keys.out) = 2
    /\ keys.out[1].key = "Tab"
    /\ keys.out[2].key = "Space"
    /\ keys.last.key = " " /\ ~keys.last.shiftKey

\* the primitives of the click executor that it has used so far
Primitives(s) ==
    {s.issued[k] : k \in 1..Len(s.issued)} \cap {"evaluate", "mouse.click", "click"}

\* the primitive a click action is to get
Chosen(action) ==
    IF action.checked # "undefined" THEN "evaluate"
    ELSE IF action.x # Undefined /\ action.y # Undefined THEN "mouse.click"
    ELSE "click"

Awaited(s) == \E k \in 1..Len(s.issued) : s.issued[k] = "waitForSelector"

\* C37 as stated: when the executor has returned, a click action with checked had
\* the element's checked property set and no mouse click, one with x and y
\* (and no checked) had a mouse click, any other had the selector awaited and
\* a driver-level click; exactly one of the three was used.
C37_OnePrimitiveAlways ==
    click.pc = "done" =>
        /\ Primitives(click) = {Chosen(click.action)}
        /\ Chosen(click.action) = "evaluate" => click.checked = click.action.checked
        /\ Chosen(click.action) = "click" => Awaited(click)

\* C37: the executor never uses another primitive than the one the action is
\* to get (checked first, then x and y, then the selector); when it returns
\* without an error it has used exactly that one, after awaiting the selector
\* unless it is the mouse click; with checked the property is set, and change
\* and click are dispatched, exactly if the selector's element is a checkbox
\* or a radio button when the page function runs.
C37_OnePrimitive ==
    /\ Primitives(click) \subseteq {Chosen(click.action)}
    /\ click.pc = "done" =>
          /\ Primitives(click) = {Chosen(click.action)}
          /\ Chosen(click.action) # "mouse.click" <=> Awaited(click)
    /\ click.checked # "unset" =>
          /\ Chosen(click.action) = "evaluate"
          /\ click.checked = click.action.checked
          /\ click.el \in {"checkbox", "radio"}
          /\ click.dispatched = <<"change", "click">>
    /\ click.checked = "unset" => click.dispatched = <<>>

\* an action with checked, x and y has set the checkbox and clicked nowhere
C37_Witness ==
    /\ click.pc = "done"
    /\ click.action = [checked |-> "false", x |-> 0, y |-> MaxCoord]
    /\ click.checked = "false"
    /\ click.issued = <<"showClick", "waitForSelector", "evaluate">>

\* ceil(timeout / interval)
CeilPolls(timeout) == (timeout + Interval - 1) \div Interval

AllBusy(obs) == \A k \in 1..Len(obs) : obs[k] = "busy"

WaiterOver == waiter.pc \in {"returned", "BUSY_TIMEOUT", "threw"}

\* C33, what is always true of the waiter: it goes on only while every poll
\* found the indicator visible and the page open; it has returned exactly
\* when the last thing it found was no visible indicator or a closed page; it
\* raises BUSY_TIMEOUT only after polls that all found the indicator visible
\* and that span the whole busyTimeout; it never polls more than
\* ceil(busyTimeout / interval) times.
C33_WaiterSafe ==
    /\ waiter.polls <= CeilPolls(waiter.timeout)
    /\ waiter.pc \notin {"returned", "threw"} => AllBusy(waiter.obs)
    /\ waiter.pc = "returned" <=>
          /\ waiter.obs # <<>>
          /\ waiter.obs[Len(waiter.obs)] \in {"idle", "closed"}
    /\ waiter.pc = "returned" => AllBusy(SubSeq(waiter.obs, 1, Len(waiter.obs) - 1))
    /\ waiter.pc = "BUSY_TIMEOUT" =>
          /\ Len(waiter.obs) = waiter.polls
          /\ waiter.polls = CeilPolls(waiter.timeout)
          /\ waiter.polls * Interval >= waiter.timeout

\* C33: the above, and the waiter always terminates.
C33_Waiter == []C33_WaiterSafe /\ <>WaiterOver

\* a timeout that is no multiple of the interval, reached after three polls
C33_Witness ==
    /\ waiter.pc = "BUSY_TIMEOUT"
    /\ waiter.timeout = 2 * Interval + 1
    /\ waiter.polls = 3
    /\ waiter.obs = <<"busy", "busy", "busy">>

\* s is the beginning of t
Prefix(s, t) == Len(s) <= Len(t) /\ SubSeq(t, 1, Len(s)) = s

\* C34 - Recorder with stream=false: a recording begins with an empty buffer
\* of actions; while it lasts the buffer only grows, at its end, by the
\* actions captured; nothing is emitted on 'action' before the recording is
\* ended by stopRecording() or by a disconnect, and that step emits the whole
\* buffer as one array (nothing when it is empty) and ends the recording, so
\* that no array is emitted twice and none holds an action of an earlier
\* recording.
C34_BufferedRecording ==
    [][~option.stream =>
          /\ (status # "RECORDING" /\ status' = "RECORDING") => recordedActions' = <<>>
          /\ (status = "RECORDING" /\ status' = "RECORDING") =>
                 Prefix(recordedActions, recordedActions')
          /\ recordedActions' = <<>> \/ Prefix(recordedActions, recordedActions')
          /\ Items(emitted', "action") = <<>>
          /\ FinalizeRuns =>
                 /\ Arrays(emitted', "action") =
                        (IF recordedActions = <<>> THEN <<>> ELSE <<recordedActions>>)
                 /\ status' # "RECORDING"
          /\ ~FinalizeRuns => Arrays(emitted', "action") = <<>>]_vars

\* the second recording of a session was stopped and handed over its two
\* actions, the initial browser_resize and one from the page
C34_Witness ==
    /\ ~option.stream /\ starts = 2
    /\ lastRet.op = "stopRecording" /\ lastRet.RETCD = "S"
    /\ Arrays(emitted, "action") = <<recordedActions>>
    /\ Len(recordedActions) = 2
    /\ InitialResize(recordedActions[1]) /\ recordedActions[2].type # "browser_resize"

\* the step is a close() that passes its state check while a recording is on
ClosesRecording ==
    /\ status = "RECORDING"
    /\ \/ ~ClosePending(calls) /\ ClosePending(calls')
       \/ lastRet'.op = "close"

\* nothing of a recording is handed over: no 'stop', nothing on 'action' or
\* 'console-error'
NothingHandedOver(es) ==
    /\ OnChannel(es, "stop") = <<>>
    /\ OnChannel(es, "action") = <<>>
    /\ OnChannel(es, "console-error") = <<>>

\* C35 - Recorder: a close() invoked in RECORDING sets CLOSING (or is over at
\* once when no browser is connected); from then until it resolves no step
\* emits 'stop' or anything on 'action' or 'console-error' and the status
\* stays CLOSING; the step in which it resolves emits 'close' alone and
\* leaves IDLE with both buffers empty, so that what was buffered is never
\* emitted.
C35_CloseWhileRecording ==
    [][/\ ClosesRecording =>
             /\ NothingHandedOver(emitted')
             /\ status' = "CLOSING" \/ lastRet'.op = "close"
       /\ status = "CLOSING" =>
             /\ NothingHandedOver(emitted')
             /\ status' = "CLOSING" \/ lastRet'.op = "close"
       /\ lastRet'.op = "close" =>
             /\ Len(emitted') = 1 /\ emitted'[1].ch = "close"
             /\ status' = "IDLE"
             /\ recordedActions' = <<>> /\ recordedErrors' = <<>>]_vars

\* close() was invoked during the first recording of a buffered Recorder,
\* which holds two actions, and has not resolved yet
C35_Witness ==
    /\ ~option.stream /\ starts = 1
    /\ status = "CLOSING" /\ ClosePending(calls)
    /\ recordingStartTime # NULL /\ recordingEndTime = NULL
    /\ Len(recordedActions) = 2
    /\ emitted = <<>>

\* C32 - Recorder: however often the capture script is evaluated, the
\* document of a page holds at most one set of capture listeners, and
\* evaluateOnNewDocument is called at most once on the page of a launch,
\* through all the start/stop cycles on it.
C32_InjectedOnce ==
    \A b \in Browsers :
        /\ scripts[b].document.listeners <= 1
        /\ scripts[b].newDocument <= 1
        /\ scripts[b].document.u4arec <=> scripts[b].document.listeners = 1

\* the second startRecording() of a session has succeeded: the script was
\* evaluated twice, there is one set of listeners and one registration
C32_Witness ==
    /\ starts = 2 /\ status = "RECORDING"
    /\ lastRet.op = "startRecording" /\ lastRet.RETCD = "S"
    /\ scripts[1].document.listeners = 1 /\ scripts[1].newDocument = 1

\* a close() is under way: the status is CLOSING or a close() waits for the driver
CloseUnderWay ==
    \/ status = "CLOSING"
    \/ rpStatus = "CLOSING"
    \/ \E i \in Slots : Closing(i) \/ RpClosing(i)

\* every close() has resolved and the instance is IDLE
CloseOver ==
    /\ status = "IDLE"
    /\ rpStatus = "IDLE"
    /\ \A i \in Slots : ~Closing(i) /\ ~RpClosing(i)

\* C36 - Recorder and Replayer, when the driver calls that close() awaits
\* settle: once a close() is under way (called from outside in a state other
\* than IDLE and CLOSING, or by the catch block of the Replayer's launchPage),
\* every close() eventually resolves and the status eventually is IDLE; no
\* instance stays in CLOSING forever.
C36_CloseTerminates == CloseUnderWay ~> CloseOver

\* a close() of the Recorder waits for browser.close() in CLOSING
C36_Witness ==
    /\ status = "CLOSING"
    /\ \E i \in Slots : Closing(i) /\ calls[i].pc = "browserClose" /\ up[calls[i].b]

\* the site goes on with its next statement, as after overlay calls that
\* succeeded: nothing was thrown into the function the site is in
OverlayHarmless(s) == s.end \in {"continues", "caught", "skipped"}

\* C38 - Replayer: however the driver calls of an overlay method settle
\* (inject, show/hide indicator, the click/input/key/scroll/resize hints),
\* nothing is thrown into launchPage, reloadPage, play or an executor, which
\* go on as after a successful call; with visualEffects false no site invokes
\* an overlay method or a driver call.
C38_OverlayIsolation ==
    /\ overlay.end # "thrown"
    /\ overlay.pc = "done" => OverlayHarmless(overlay)
    /\ ~overlay.visualEffects => overlay.invoked = <<>> /\ overlay.issued = <<>>

\* the click hint failed on its second evaluate and the executor went on
C38_Witness ==
    /\ overlay.site = "showClick"
    /\ overlay.pc = "done"
    /\ overlay.failed
    /\ Len(overlay.issued) >= 3
    /\ overlay.end = "continues"

====
